---- MODULE Spec2Model ----
(***************************************************************************)
(* Phase-plane toolbox (Toolbox/phaseplane.py): state-machine model of     *)
(* find_saddle_manifolds and of the helpers it is built from.              *)
(*                                                                         *)
(* Numbers.  dx_perp is a float that is only ever copied, multiplied by a  *)
(* shrink factor and compared with the floor dx_perp_eps = 1e-12.  It is   *)
(* modelled exactly as a rational num / 4^exp in units of 1e-12; a shrink  *)
(* factor is a number of quarters (0.75 is 3 quarters).  Arclength is an   *)
(* integer number of length units; the distance norm(x - last_x) between   *)
(* two successive manifold points is an input drawn from 0..MaxStep, or    *)
(* nan, which is written -1.                                               *)
(***************************************************************************)
EXTENDS Integers, Sequences, FiniteSets, TLC

\* ------------------------------------------------------------------ bounds
MaxPts    == 2    \* largest max_pts argument tried
MaxLen    == 4    \* largest max_len argument tried (length units)
MaxStep   == 2    \* largest distance between two successive points
MaxDxPerp == 4    \* largest dx_perp argument tried (units of 1e-12)
MaxComp   == 1    \* largest component of a vector-field value tried
MaxFlowPts == 3   \* max_pts of the growth loop followed for its flow vectors
MaxX      == 2    \* test points tried by test_fn are 0..MaxX
MaxT      == 2    \* event times reported by the integrator are 1..MaxT
MaxIter   == 3    \* largest maxiter argument of bisection tried
MaxN      == 4    \* largest n argument of find_fixedpoints tried
MaxD      == 2    \* largest number of variables in subdomain
MaxRoot   == 3    \* coordinates fsolve ends at are 0..MaxRoot
MaxSearch == 9    \* largest maxsearch argument tried
MaxEig    == 1    \* real parts of eigenvalues tried are -MaxEig..MaxEig
MaxRes    == 2    \* components of Rhs tried are -MaxRes and 0..MaxRes
MaxDx     == 3    \* dx of dx_scaled_2D tried is 1..MaxDx
MaxScale  == 10   \* largest entry of rel_scale tried
MaxCoord  == 2    \* x coordinates of the points given to filter_close_points are 0..MaxCoord
MaxFcpLen == 3    \* most points given to filter_close_points
MaxEps    == 2    \* eps of filter_close_points tried is 1..MaxEps
MaxVal    == 2    \* samples and threshold of find_period are 0..MaxVal
MaxSamples == 4   \* most samples given to find_period
MaxWidth  == 1    \* widths of x_dom of find_nullclines are TolDen*(1..MaxWidth)
MaxNumPoints == 5 \* largest max_num_points of find_nullclines tried
MaxNcPts  == 2    \* most roots found by the grid search for one nullcline

\* ------------------------------------------------------- program constants
dx_perp_eps   == 1    \* 1e-12, in units of 1e-12
StepShrinkQ   == 3    \* the literal 0.75 of the growth loop, in quarters
TolDen        == 50   \* tol = 0.02 of find_nullclines, as 1/TolDen
XtolFactor    == 10   \* grid roots are filtered with eps = xtol*10
loop_step     == 5    \* points per continuation batch

VARIABLES
  args,             \* the caller's arguments (never assigned after entry)
  pc,               \* position in find_saddle_manifolds
  err,              \* exception that left the function, or "none"
  eventstruct,      \* gen.eventstruct: event name -> [activeFlag, dir]
  gen_pars,         \* what gen.set(pars=..., tdata=...) last installed
  manifold,         \* result dict: branch name -> sorted (arc_len, point) pairs
  wi, di,           \* index into which / into directions
  w_sgn, integ_dircode, evec, evec_other,
  piece,            \* dict of the branch being grown: key -> point
  ic, ic_dx, f_ic,  \* the local variables of the same names
  curve_len, num_pts,
  dx_perp, dx_perp_default,
  rhs, f, last_f,   \* growth loop: gen.Rhs at last_x, the flow vectors
  x, dircode,       \* test_fn: its arguments
  gen_ics,          \* test_fn: what gen.set(ics=...) installed
  test, events,     \* test_fn: the trajectory and gen.getEvents()
  test_sgn,         \* test_fn: its local sgn, the value returned
  bis_args,         \* bisection: func, a, b, xtol, maxiter as passed, the caller
  bis,              \* bisection: its locals a, b, eva, evb, i, dist, p, ev
  calls,            \* bisection: the points func was called at, in order
  ret,              \* bisection / onto_manifold: the value returned
  ff_args,          \* find_fixedpoints: n, subdomain, maxsearch, eps, the domains
  ff,               \* find_fixedpoints: its locals n, D, d_posns.counter, res
  fps,              \* find_fixedpoints: the list fps of accepted roots
  found,            \* history: the accepted-quality roots in order of finding
  starts,           \* history: d_posns at each call of fsolve, in order
  fp_args,          \* fixedpoint_2D(...): eigenvalues, Rhs at pt, eps, dimension
  fp,               \* the fixedpoint_2D object under construction
  dxs,              \* dx_scaled_2D: the object, the direction, the step returned
  fcp,              \* filter_close_points: pts, eps, i, j, remaining, result
  per,              \* find_period: its arguments and locals
  nc                \* find_nullclines: its arguments and locals

vars == <<args, pc, err, eventstruct, gen_pars, manifold, wi, di, w_sgn,
          integ_dircode, evec, evec_other, piece, ic, ic_dx, f_ic,
          curve_len, num_pts, dx_perp, dx_perp_default,
          rhs, f, last_f, x, dircode, gen_ics, test, events, test_sgn,
          bis_args, bis, calls, ret,
          ff_args, ff, fps, found, starts, fp_args, fp, dxs, fcp, per, nc>>

\* the variables of find_saddle_manifolds proper
mainVars == <<args, err, eventstruct, gen_pars, manifold, wi, di, w_sgn,
              integ_dircode, evec, evec_other, piece, ic, ic_dx, f_ic,
              curve_len, num_pts, dx_perp, dx_perp_default>>

\* the variables of the growth loop's flow bookkeeping
flowVars == <<rhs, f, last_f>>

\* the variables of test_fn
testVars == <<x, dircode, gen_ics, test, events, test_sgn>>

\* the variables of bisection and onto_manifold
bisVars == <<bis_args, bis, calls, ret>>

\* the variables of find_fixedpoints
ffVars == <<ff_args, ff, fps, found, starts>>

\* the variables of the fixedpoint_2D constructor
fpVars == <<fp_args, fp>>

\* find_saddle_manifolds, its flow bookkeeping and test_fn leave these alone
\* the variables of dx_scaled_2D, filter_close_points, find_period and
\* find_nullclines
lateVars == <<dxs, fcp, per, nc>>

restVars == <<bisVars, ffVars, fpVars, lateVars>>

\* the locals of find_saddle_manifolds (mainVars without err)
saddleVars == <<args, eventstruct, gen_pars, manifold, wi, di, w_sgn,
                integ_dircode, evec, evec_other, piece, ic, ic_dx, f_ic,
                curve_len, num_pts, dx_perp, dx_perp_default>>

\* bisection and onto_manifold leave these alone
notBisVars == <<saddleVars, flowVars, testVars, ffVars, fpVars, lateVars>>

\* what find_fixedpoints leaves alone
notFFVars == <<saddleVars, flowVars, testVars, bisVars, fpVars, lateVars>>

\* what the fixedpoint_2D constructor leaves alone
notFPVars == <<saddleVars, flowVars, testVars, bisVars, ffVars, lateVars>>

\* the variables of the components modelled before dx_scaled_2D
earlyVars == <<saddleVars, flowVars, testVars, bisVars, ffVars, fpVars>>

\* ----------------------------------------------------------------- helpers
RECURSIVE Pow4(_)
Pow4(k) == IF k = 0 THEN 1 ELSE 4 * Pow4(k - 1)

\* a float as the rational num / 4^exp
Real(n) == [num |-> n, exp |-> 0]

\* d *= q/4
Times(d, q) == [num |-> d.num * q, exp |-> d.exp + 1]

\* d > dx_perp_eps
AboveEps(d) == d.num > dx_perp_eps * Pow4(d.exp)

EmptyDict == [k \in {} |-> 0]

\* d[k] = v on a Python dict
DictSet(d, k, v) == [j \in (DOMAIN d) \cup {k} |-> IF j = k THEN v ELSE d[j]]

Min(S) == CHOOSE m \in S : \A n \in S : m <= n

RECURSIVE SortedSeq(_)
SortedSeq(S) == IF S = {} THEN <<>> ELSE <<Min(S)>> \o SortedSeq(S \ {Min(S)})

\* a float is nan (written -1): every comparison with it is false
IsNaN(len) == len < 0

\* nan equals no key of a dict, itself included, so a point stored under nan
\* is always a new entry.  At most one is stored per direction (the growth
\* loop is left once curve_len is nan); it is written as a key of that
\* direction beyond every arclength that can be reached.
NaNKey(sgn) == sgn * (MaxLen + 2 * MaxStep)

IsNaNKey(k) == k = NaNKey(1) \/ k = NaNKey(-1)

\* the orders a sort by key can leave the keys of a branch in: increasing
\* order, but any order as soon as one key is nan.  Every comparison with nan
\* is false, so the sort returns what the order the dict hands the keys in
\* (the hash order of the floats) and its own comparisons make of them, and
\* keys that are arclengths can come out in decreasing order too.
KeyOrders(S) ==
  LET ks == SortedSeq(S)
  IN  IF \E k \in S : IsNaNKey(k)
        THEN {[i \in 1..Len(ks) |-> ks[q[i]]] : q \in Permutations(1..Len(ks))}
        ELSE {ks}

\* sortedDictLists(piece, byvalue=False) followed by pointsToPointset:
\* the points of the dict in the order ks of their keys
sortedDictLists(d, ks) ==
  [i \in 1..Len(ks) |-> [arc_len |-> ks[i], pt |-> d[ks[i]]]]

\* ------------------------------------------------------------- the inputs
\* the distances norm(x - ic), norm(x - last_x) an accepted point can lie from
\* the one before it: 0 when bisection returns that very point (dx is not
\* checked to be positive), and nan (-1) when x has a nan coordinate
StepLengths == -1..MaxStep

Which      == {<<"s">>, <<"u">>, <<"s", "u">>}
Directions == {<<1>>, <<-1>>, <<1, -1>>}
NoValue    == [base |-> "None", wraps |-> 0]

\* the arguments tried.  dx_perp_fac is in quarters: 0 and 4 (0.0 and 1.0)
\* are outside (0, 1).  The arguments that steer the growth are tried in every
\* combination for a call that asks for one branch and starts at the fixed
\* point; which, directions and the arguments that choose the start (ic,
\* ic_dx) and tmax are tried in every combination for max_pts = 1.
ArgSets ==
  [which       : {<<"s">>, <<"u">>},
   directions  : Directions,
   dx_perp     : {Real(2), Real(MaxDxPerp)},
   dx_perp_fac : {0, 2, 3, 4},
   max_pts     : {1, MaxPts},
   max_len     : {2, MaxLen},
   tmax        : {1},
   ic          : {[kind |-> "None", arc_len |-> 0]},
   other_pts   : BOOLEAN,
   ic_dx       : {NoValue}]
  \cup
  [which       : Which,
   directions  : Directions,
   dx_perp     : {Real(MaxDxPerp)},
   dx_perp_fac : {3},
   max_pts     : {1},
   max_len     : {MaxLen},
   tmax        : {0, 1},
   ic          : {[kind |-> "None", arc_len |-> 0],
                  [kind |-> "Point", arc_len |-> 0],
                  [kind |-> "Pointset", arc_len |-> -1]},
   other_pts   : {FALSE},
   ic_dx       : {NoValue, [base |-> "ic_dx", wraps |-> 0]}]

EventNames == {"Gamma_out_plus", "Gamma_out_minus"}

\* gen.getEvents() reports None for an event that did not occur
NoEvent == <<>>

\* the flow bookkeeping and test_fn before they are used
FlowIdle == rhs = <<0, 0>> /\ f = <<0, 0>> /\ last_f = <<0, 0>>

TestIdle ==
  /\ x = 0
  /\ dircode = "none"
  /\ gen_ics = <<>>
  /\ test = "none"
  /\ events = [Gamma_out_plus |-> NoEvent, Gamma_out_minus |-> NoEvent]
  /\ test_sgn = 0

\* find_saddle_manifolds before it is entered, for the given arguments
MainIdle(a) ==
  /\ args = a
  /\ err = "none"
  /\ eventstruct = [e \in EventNames |-> [activeFlag |-> FALSE, dir |-> 0]]
  /\ gen_pars = [Gamma |-> "unset", tdata |-> 0]
  /\ manifold = EmptyDict
  /\ wi = 1
  /\ di = 1
  /\ w_sgn = 0
  /\ integ_dircode = "none"
  /\ evec = "none"
  /\ evec_other = "none"
  /\ piece = EmptyDict
  /\ ic = a.ic
  /\ ic_dx = a.ic_dx
  /\ f_ic = "none"
  /\ curve_len = 0
  /\ num_pts = 0
  /\ dx_perp = a.dx_perp
  /\ dx_perp_default = a.dx_perp

\* the arguments held by the find_saddle_manifolds variables while another
\* component runs: one member of ArgSets, not the defaults of the signature
IdleArgs ==
  [which |-> <<"s">>, directions |-> <<1, -1>>, dx_perp |-> Real(MaxDxPerp),
   dx_perp_fac |-> 3, max_pts |-> MaxPts, max_len |-> MaxLen, tmax |-> 1,
   ic |-> [kind |-> "None", arc_len |-> 0], other_pts |-> FALSE, ic_dx |-> NoValue]

\* bisection before it is called
BisIdle ==
  /\ bis_args = [func |-> [kind |-> "none", c |-> 0, bad |-> {}], a |-> 0, b |-> 0,
                 xtol |-> 0, maxiter |-> 0, caller |-> "none"]
  /\ bis = [a |-> 0, b |-> 0, eva |-> 0, evb |-> 0, i |-> 0, dist |-> 0,
            p |-> 0, ev |-> 0]
  /\ calls = <<>>
  /\ ret = 0

\* res of line 514 before fsolve was called
NoRes == [xinf |-> <<>>, finite |-> FALSE, ier |-> 0]

\* find_fixedpoints before it is called
FFIdle ==
  /\ ff_args = [n |-> 0, subdomain |-> <<>>, maxsearch |-> 0, eps |-> 0,
                sub_hi |-> 0, dep_hi |-> 0]
  /\ ff = [n |-> 0, D |-> 0, counter |-> <<>>, done |-> 0, res |-> NoRes]
  /\ fps = <<>>
  /\ found = <<>>
  /\ starts = <<>>

\* no fixedpoint_2D under construction
FPIdle ==
  /\ fp_args = [evals |-> <<[re |-> 0, im |-> 0], [re |-> 0, im |-> 0]>>,
                resid |-> <<>>, eps |-> 0, dimension |-> 0, jac |-> FALSE]
  /\ fp = [classification |-> "", stability |-> "", degenerate |-> FALSE,
           eval_s |-> 0, eval_u |-> 0, evec_s |-> 0, evec_u |-> 0]

\* the components other than find_saddle_manifolds, before they are used
\* dx_scaled_2D before an object is made
DxsIdle ==
  dxs = [dx |-> 0, scale |-> <<0, 0>>, x_scale |-> [num |-> 0, den |-> 1],
         y_scale |-> [num |-> 0, den |-> 1], dir |-> <<0, 0>>,
         step |-> [num |-> <<0, 0>>, den |-> 1]]

\* filter_close_points before it is called
FcpIdle ==
  fcp = [pts |-> <<>>, eps |-> 0, i |-> 0, j |-> 0, remaining |-> <<>>,
         out |-> <<>>]

\* find_period before it is called
PerIdle ==
  per = [a |-> <<>>, t |-> <<>>, th |-> 0, dir |-> 0, with_indices |-> FALSE,
         off |-> FALSE, i |-> 0, ts |-> <<>>, ixs |-> <<>>, out |-> [kind |-> "none", v |-> 0]]

\* find_nullclines before it is called
NcIdle ==
  nc = [x_dom |-> <<0, 0>>, y_dom |-> <<0, 0>>, xtol |-> 0, max_step |-> 0,
        max_num_points |-> 0, do_vars |-> {}, x_null |-> <<>>, y_null |-> <<>>,
        todo |-> <<>>, cur |-> "none", sol |-> <<>>, new_sol_segment |-> <<>>,
        num_points |-> 0]

LateIdle == DxsIdle /\ FcpIdle /\ PerIdle /\ NcIdle

\* every component but find_saddle_manifolds, the growth loop and test_fn
EarlyIdle == BisIdle /\ FFIdle /\ FPIdle

RestIdle == EarlyIdle /\ LateIdle

Init ==
  /\ pc = "entry"
  /\ \E a \in ArgSets : MainIdle(a)
  /\ FlowIdle
  /\ TestIdle
  /\ RestIdle

\* ------------------------------------------------ find_saddle_manifolds
\* a range test that lets the factor 1 through
FacInRangeAllowsOne(q) == ~(q > 4 \/ q <= 0)

\* lines 748-749: the shrink factor must lie strictly between 0 and 1
FacInRange(q) == ~(q >= 4 \/ q <= 0)

CheckArgs ==
  /\ pc = "entry"
  /\ IF FacInRange(args.dx_perp_fac)
       THEN pc' = "activate" /\ err' = err
       ELSE pc' = "raised" /\ err' = "ValueError: dx_perp_fac must be between 0 and 1"
  /\ UNCHANGED <<restVars, flowVars, testVars, args, eventstruct, gen_pars, manifold, wi, di, w_sgn,
                 integ_dircode, evec, evec_other, piece, ic, ic_dx, f_ic,
                 curve_len, num_pts, dx_perp, dx_perp_default>>

\* eventstruct[name].activeFlag = flag
SetActive(es, name, flag) == [es EXCEPT ![name].activeFlag = flag]

\* lines 824-825
ActivateEvents(es) ==
  SetActive(SetActive(es, "Gamma_out_plus", TRUE), "Gamma_out_minus", TRUE)

\* a return that forgets the second flag
DeactivateEventsPlusOnly(es) == SetActive(es, "Gamma_out_plus", FALSE)

\* lines 1003-1004
DeactivateEvents(es) ==
  SetActive(SetActive(es, "Gamma_out_plus", FALSE), "Gamma_out_minus", FALSE)

\* lines 824-830: activate both exit surfaces, then assert tmax > 0
Activate ==
  /\ pc = "activate"
  /\ eventstruct' = ActivateEvents(eventstruct)
  /\ IF args.tmax > 0
       THEN pc' = "branch" /\ err' = err /\ manifold' = EmptyDict
       ELSE pc' = "raised" /\ err' = "AssertionError" /\ manifold' = manifold
  /\ UNCHANGED <<restVars, flowVars, testVars, args, gen_pars, wi, di, w_sgn, integ_dircode, evec,
                 evec_other, piece, ic, ic_dx, f_ic, curve_len, num_pts,
                 dx_perp, dx_perp_default>>

\* lines 887-890: ic_dx is wrapped in a dx_scaled_2D on every branch
NextIcDx(cur) ==
  IF cur = NoValue THEN [base |-> "dx", wraps |-> 1]
  ELSE [base |-> cur.base, wraps |-> cur.wraps + 1]

Abs(n) == IF n < 0 THEN -n ELSE n

\* lines 891-907: the start point, the initial direction and the initial
\* arclength of a branch.  ic is a local: line 892 rebinds it to fp.point and
\* line 904 to the single point of the pointset, and the tests of lines 891
\* and 900 read its current value.
NextIc(cur) ==
  IF cur.kind = "None" THEN [kind |-> "fp.point", arc_len |-> 0]
  ELSE IF cur.kind = "Pointset" THEN [kind |-> "Point", arc_len |-> 0]
  ELSE cur

NextFic(cur) == IF cur.kind = "None" THEN "evec_other" ELSE "Rhs(ic)"

NextCurveLen(cur) == IF cur.kind = "Pointset" THEN Abs(cur.arc_len) ELSE 0

\* lines 832-907: set up branch which[wi]
BranchSetup ==
  /\ pc = "branch"
  /\ wi <= Len(args.which)
  /\ LET w == args.which[wi] IN
       /\ w_sgn' = IF w = "s" THEN -1 ELSE 1
       /\ integ_dircode' = IF w = "s" THEN "f" ELSE "b"
       /\ evec' = IF w = "s" THEN "evec_u" ELSE "evec_s"
       /\ evec_other' = IF w = "s" THEN "evec_s" ELSE "evec_u"
  /\ eventstruct' = [eventstruct EXCEPT !["Gamma_out_plus"].dir = -1,
                                        !["Gamma_out_minus"].dir = 1]
  /\ gen_pars' = [Gamma |-> evec', tdata |-> args.tmax]
  /\ piece' = EmptyDict
  /\ ic_dx' = NextIcDx(ic_dx)
  /\ ic' = NextIc(ic)
  /\ f_ic' = NextFic(ic)
  /\ curve_len' = NextCurveLen(ic)
  /\ di' = 1
  /\ pc' = "direction"
  /\ UNCHANGED <<restVars, flowVars, testVars, args, err, manifold, wi, num_pts, dx_perp, dx_perp_default>>

\* lines 1003-1007: all branches done, deactivate and return
Return ==
  /\ pc = "branch"
  /\ wi > Len(args.which)
  /\ eventstruct' = DeactivateEvents(eventstruct)
  /\ pc' = "done"
  /\ UNCHANGED <<restVars, flowVars, testVars, args, err, gen_pars, manifold, wi, di, w_sgn, integ_dircode,
                 evec, evec_other, piece, ic, ic_dx, f_ic, curve_len, num_pts,
                 dx_perp, dx_perp_default>>

\* lines 908-926: predict the first point of direction directions[di]
DirectionStart ==
  /\ pc = "direction"
  /\ di <= Len(args.directions)
  /\ dx_perp_default' = dx_perp
  /\ pc' = "first_corr"
  /\ UNCHANGED <<restVars, flowVars, testVars, args, err, eventstruct, gen_pars, manifold, wi, di, w_sgn,
                 integ_dircode, evec, evec_other, piece, ic, ic_dx, f_ic,
                 curve_len, num_pts, dx_perp>>

\* lines 1000-1002: all directions done, store the sorted branch
BranchEnd ==
  /\ pc = "direction"
  /\ di > Len(args.directions)
  /\ \E ks \in KeyOrders(DOMAIN piece) :
       manifold' = DictSet(manifold, args.which[wi], sortedDictLists(piece, ks))
  /\ wi' = wi + 1
  /\ pc' = "branch"
  /\ UNCHANGED <<restVars, flowVars, testVars, args, err, eventstruct, gen_pars, di, w_sgn, integ_dircode,
                 evec, evec_other, piece, ic, ic_dx, f_ic, curve_len, num_pts,
                 dx_perp, dx_perp_default>>

\* line 933: dx_perp *= dx_perp_fac
ShrinkFirst(d, fac) == Times(d, fac)

\* line 979: dx_perp *= 0.75
ShrinkStep(d, fac) == Times(d, StepShrinkQ)

\* lines 942, 988: curve_len += norm(x - previous point)
AddLen(len, d) == IF IsNaN(len) \/ IsNaN(d) THEN -1 ELSE len + d

\* lines 943, 989: the key of a point in piece
PieceKey(sgn, len) == IF IsNaN(len) THEN NaNKey(sgn) ELSE sgn * len

\* the point accepted as number n of direction sgn
Pt(sgn, n) == [sgn |-> sgn, n |-> n]

\* lines 928-933: onto_manifold raised RuntimeError, shrink and retry
FirstCorrectionFails ==
  /\ pc = "first_corr"
  /\ AboveEps(dx_perp)
  /\ dx_perp' = ShrinkFirst(dx_perp, args.dx_perp_fac)
  /\ UNCHANGED <<restVars, flowVars, testVars, args, pc, err, eventstruct, gen_pars, manifold, wi, di,
                 w_sgn, integ_dircode, evec, evec_other, piece, ic, ic_dx,
                 f_ic, curve_len, num_pts, dx_perp_default>>

\* lines 928-935, 941-950: onto_manifold returned x at distance d from ic
FirstCorrectionConverges ==
  /\ pc = "first_corr"
  /\ AboveEps(dx_perp)
  /\ \E d \in StepLengths :
       /\ curve_len' = AddLen(curve_len, d)
       /\ piece' = DictSet(piece, PieceKey(args.directions[di], curve_len'),
                           Pt(args.directions[di], 1))
  /\ num_pts' = 1
  /\ dx_perp' = dx_perp_default
  /\ pc' = "grow"
  /\ UNCHANGED <<restVars, flowVars, testVars, args, err, eventstruct, gen_pars, manifold, wi, di, w_sgn,
                 integ_dircode, evec, evec_other, ic, ic_dx, f_ic,
                 dx_perp_default>>

\* lines 936-940: the loop ended with dx_perp at the floor
InitialPointFails ==
  /\ pc = "first_corr"
  /\ ~AboveEps(dx_perp)
  /\ pc' = "raised"
  /\ err' = "RuntimeError: Initial point did not converge"
  /\ UNCHANGED <<restVars, flowVars, testVars, args, eventstruct, gen_pars, manifold, wi, di, w_sgn,
                 integ_dircode, evec, evec_other, piece, ic, ic_dx, f_ic,
                 curve_len, num_pts, dx_perp, dx_perp_default>>

\* a growth loop that tests the arclength only
GrowConditionLenOnly == ~IsNaN(curve_len) /\ curve_len < args.max_len

\* line 952: curve_len < max_len and num_pts < max_pts
GrowCondition ==
  ~IsNaN(curve_len) /\ curve_len < args.max_len /\ num_pts < args.max_pts

\* lines 952-972: predict the next point, restore dx_perp
GrowPredict ==
  /\ pc = "grow"
  /\ GrowCondition
  /\ dx_perp' = dx_perp_default
  /\ pc' = "step_corr"
  /\ UNCHANGED <<restVars, flowVars, testVars, args, err, eventstruct, gen_pars, manifold, wi, di, w_sgn,
                 integ_dircode, evec, evec_other, piece, ic, ic_dx, f_ic,
                 curve_len, num_pts, dx_perp_default>>

\* lines 956-959: last_x is within dx of one of other_pts, break
GrowHitsOtherPoint ==
  /\ pc = "grow"
  /\ GrowCondition
  /\ args.other_pts
  /\ di' = di + 1
  /\ pc' = "direction"
  /\ UNCHANGED <<restVars, flowVars, testVars, args, err, eventstruct, gen_pars, manifold, wi, w_sgn,
                 integ_dircode, evec, evec_other, piece, ic, ic_dx, f_ic,
                 curve_len, num_pts, dx_perp, dx_perp_default>>

\* line 952: the growth loop of this direction ends
GrowExit ==
  /\ pc = "grow"
  /\ ~GrowCondition
  /\ di' = di + 1
  /\ pc' = "direction"
  /\ UNCHANGED <<restVars, flowVars, testVars, args, err, eventstruct, gen_pars, manifold, wi, w_sgn,
                 integ_dircode, evec, evec_other, piece, ic, ic_dx, f_ic,
                 curve_len, num_pts, dx_perp, dx_perp_default>>

\* lines 974-979
StepCorrectionFails ==
  /\ pc = "step_corr"
  /\ AboveEps(dx_perp)
  /\ dx_perp' = ShrinkStep(dx_perp, args.dx_perp_fac)
  /\ UNCHANGED <<restVars, flowVars, testVars, args, pc, err, eventstruct, gen_pars, manifold, wi, di,
                 w_sgn, integ_dircode, evec, evec_other, piece, ic, ic_dx,
                 f_ic, curve_len, num_pts, dx_perp_default>>

\* lines 974-981, 987-991: onto_manifold returned x at distance d from last_x
StepCorrectionConverges ==
  /\ pc = "step_corr"
  /\ AboveEps(dx_perp)
  /\ \E d \in StepLengths :
       /\ curve_len' = AddLen(curve_len, d)
       /\ piece' = DictSet(piece, PieceKey(args.directions[di], curve_len'),
                           Pt(args.directions[di], num_pts + 1))
  /\ num_pts' = num_pts + 1
  /\ pc' = "grow"
  /\ UNCHANGED <<restVars, flowVars, testVars, args, err, eventstruct, gen_pars, manifold, wi, di, w_sgn,
                 integ_dircode, evec, evec_other, ic, ic_dx, f_ic, dx_perp,
                 dx_perp_default>>

\* lines 982-986: dx_perp at the floor, break out of the growth loop
StepGivesUp ==
  /\ pc = "step_corr"
  /\ ~AboveEps(dx_perp)
  /\ di' = di + 1
  /\ pc' = "direction"
  /\ UNCHANGED <<restVars, flowVars, testVars, args, err, eventstruct, gen_pars, manifold, wi, w_sgn,
                 integ_dircode, evec, evec_other, piece, ic, ic_dx, f_ic,
                 curve_len, num_pts, dx_perp, dx_perp_default>>

Next ==
  \/ CheckArgs
  \/ Activate
  \/ BranchSetup
  \/ Return
  \/ DirectionStart
  \/ BranchEnd
  \/ FirstCorrectionFails
  \/ FirstCorrectionConverges
  \/ InitialPointFails
  \/ GrowPredict
  \/ GrowHitsOtherPoint
  \/ GrowExit
  \/ StepCorrectionFails
  \/ StepCorrectionConverges
  \/ StepGivesUp

Spec == Init /\ [][Next]_vars

\* ------------------------------------------------------------ properties
Exited     == pc \in {"done", "raised"}
InCorrection == pc \in {"first_corr", "step_corr"}
BothInactive ==
  /\ ~eventstruct["Gamma_out_plus"].activeFlag
  /\ ~eventstruct["Gamma_out_minus"].activeFlag
InitialFailure == err = "RuntimeError: Initial point did not converge"

\* C1: when find_saddle_manifolds returns normally, Gamma_out_plus and
\* Gamma_out_minus both have activeFlag False, whatever branches and
\* directions were requested.
C1_ReturnDeactivates == pc = "done" => BothInactive

C1_Witness ==
  /\ pc = "done"
  /\ args.which = <<"s", "u">>
  /\ args.directions = <<1, -1>>
  /\ DOMAIN manifold = {"s", "u"}
  /\ BothInactive

\* C2: on every exit path after the events were activated (return, the
\* 'Initial point did not converge' failure, the failed tmax assertion) both
\* events are deactivated when control returns to the caller.
C2_EveryExitDeactivates == Exited => BothInactive

\* C3: a correction that never succeeds at a point after the first one of a
\* direction only ends that direction: the failure 'Initial point did not
\* converge' is raised only when the correction of a first point was tried
\* and shrank dx_perp to the floor.
C3_OnlyFirstPointRaises ==
  (pc = "raised" /\ InitialFailure) => AboveEps(dx_perp_default)

\* C4: at the start of every correction (first point and later steps, every
\* direction, every branch) dx_perp is the value configured by the caller.
C4_CorrectionStartsAtConfigured ==
  (InCorrection /\ dx_perp = dx_perp_default) => dx_perp = args.dx_perp

\* C5: every failed correction attempt multiplies dx_perp by the configured
\* dx_perp_fac, at the first point of a direction and at every later step.
C5_ShrinkByConfiguredFactor ==
  [][(InCorrection /\ pc' = pc /\ dx_perp' # dx_perp)
       => dx_perp' = Times(dx_perp, args.dx_perp_fac)]_vars

\* C6: with which=('s','u') each branch is seeded as a call requesting only
\* that branch would seed it: from the caller's ic (the fixed point along the
\* branch's own eigenvector when ic is None), ic_dx and dx_perp.
C6_BranchSeededAsSingleCall ==
  (pc = "direction" /\ di = 1) =>
     /\ ic = NextIc(args.ic)
     /\ f_ic = NextFic(args.ic)
     /\ ic_dx = NextIcDx(args.ic_dx)
     /\ curve_len = NextCurveLen(args.ic)
     /\ dx_perp = args.dx_perp

\* the arclengths of a returned branch increase strictly along the sequence
\* (a comparison with nan is false)
Ordered(seq) ==
  \A i \in 1..Len(seq) - 1 :
     /\ ~IsNaNKey(seq[i].arc_len)
     /\ ~IsNaNKey(seq[i + 1].arc_len)
     /\ seq[i].arc_len < seq[i + 1].arc_len

\* C7: within one direction curve_len increases strictly from each accepted
\* point to the next, every accepted point is stored under the key
\* sgn*curve_len, no stored point is overwritten by a later one, and the
\* returned branch holds every accepted point in arclength order.
C7_ArclengthMonotone ==
  [][/\ (pc = "step_corr" /\ pc' = "grow") => curve_len' > curve_len
     /\ (InCorrection /\ pc' = "grow") =>
          LET key == PieceKey(args.directions[di], curve_len')
          IN  /\ key \notin DOMAIN piece
              /\ DOMAIN piece' = DOMAIN piece \cup {key}
              /\ piece'[key] = Pt(args.directions[di], num_pts')
              /\ \A k \in DOMAIN piece : piece'[k] = piece[k]
     /\ (pc = "direction" /\ pc' = "branch") =>
          /\ Len(manifold'[args.which[wi]]) = Cardinality(DOMAIN piece)
          /\ Ordered(manifold'[args.which[wi]])
          /\ \A k \in DOMAIN piece : \E i \in 1..Len(manifold'[args.which[wi]]) :
               manifold'[args.which[wi]][i] = [arc_len |-> k, pt |-> piece[k]]
    ]_vars

\* the points of direction sgn in a returned branch
PointsOf(seq, sgn) == {i \in 1..Len(seq) : seq[i].pt.sgn = sgn}

\* C8 as claimed: a returned branch never holds more than max_pts points.
C8_BranchWithinMaxPts ==
  \A w \in DOMAIN manifold : Len(manifold[w]) <= args.max_pts

\* C8 (amended): max_pts bounds the points of each requested direction of a
\* branch: a returned branch never holds more than max_pts points of any one
\* direction (max_pts >= 1).
C8_DirectionWithinMaxPts ==
  \A w \in DOMAIN manifold : \A sgn \in {1, -1} :
     Cardinality(PointsOf(manifold[w], sgn)) <= args.max_pts

C8_Witness ==
  /\ pc = "done"
  /\ args.max_pts = MaxPts
  /\ \E w \in DOMAIN manifold :
       /\ Cardinality(PointsOf(manifold[w], 1)) = args.max_pts
       /\ Cardinality(PointsOf(manifold[w], -1)) = args.max_pts

\* ------------------------------------- the flow vectors of the growth loop
Vectors == {<<a, b>> : a \in -MaxComp..MaxComp, b \in -MaxComp..MaxComp}

\* c * v for a scalar c and an array v
Scale(c, v) == <<c * v[1], c * v[2]>>

\* numpy sign
Sign(n) == IF n > 0 THEN 1 ELSE IF n < 0 THEN -1 ELSE 0

\* a safeguard that fires as soon as one component changes sign
SignsDifferSomewhere(a, b) == \E i \in 1..2 : Sign(a[i]) # Sign(b[i])

\* line 961: all(sign(f) != sign(last_f))
SignsDiffer(a, b) == \A i \in 1..2 : Sign(a[i]) # Sign(b[i])

\* lines 960-962: the flow vector used by the prediction
FlowVector(w, r, lf) ==
  LET f0 == Scale(-w, r)
  IN  IF SignsDiffer(f0, lf) THEN Scale(-1, f0) ELSE f0

\* the growth loop is followed for max_pts up to MaxFlowPts
FlowArgSets ==
  {[IdleArgs EXCEPT !.max_pts = mp, !.max_len = ml, !.other_pts = op] :
     mp \in 1..MaxFlowPts, ml \in {2, MaxLen}, op \in BOOLEAN}

FlowInit ==
  /\ pc = "flow_first"
  /\ \E a \in FlowArgSets : MainIdle(a)
  /\ TestIdle
  /\ RestIdle
  /\ rhs = <<0, 0>>
  /\ f = <<0, 0>>
  /\ last_f = <<0, 0>>

\* v/norm(v) of lines 911, 914, 964 is nan for the zero vector
ZeroVector(v) == v = <<0, 0>>

\* lines 942, 988: curve_len += norm(x - previous point), x being nan when
\* the prediction or the normal divided the zero vector by its norm
FlowLen(len, d, nan) == IF nan THEN -1 ELSE AddLen(len, d)

\* lines 837-848, 893/907, 910-950: a branch is chosen, f is taken at the
\* first estimate, the first point is accepted and last_f starts as f_ic
FlowFirstPoint ==
  /\ pc = "flow_first"
  /\ w_sgn' \in {-1, 1}
  /\ f_ic' \in Vectors
  /\ rhs' \in Vectors
  /\ f' = Scale(-w_sgn', rhs')
  /\ last_f' = f_ic'
  /\ \E d \in StepLengths :
       curve_len' = FlowLen(curve_len, d, ZeroVector(f_ic') \/ ZeroVector(f'))
  /\ num_pts' = 1
  /\ pc' = "flow_grow"
  /\ UNCHANGED <<restVars, testVars, args, err, eventstruct, gen_pars, manifold, wi, di,
                 integ_dircode, evec, evec_other, piece, ic, ic_dx,
                 dx_perp, dx_perp_default>>

\* lines 910-940: the first correction never converges
FlowFirstFails ==
  /\ pc = "flow_first"
  /\ w_sgn' \in {-1, 1}
  /\ f_ic' \in Vectors
  /\ rhs' \in Vectors
  /\ f' = Scale(-w_sgn', rhs')
  /\ pc' = "flow_raised"
  /\ err' = "RuntimeError: Initial point did not converge"
  /\ UNCHANGED <<restVars, testVars, args, eventstruct, gen_pars, manifold, wi, di,
                 integ_dircode, evec, evec_other, piece, ic, ic_dx,
                 curve_len, num_pts, dx_perp, dx_perp_default, last_f>>

\* lines 952-967, 987-991: one growth step whose correction converges,
\* Rhs(last_x) being any vector
FlowStep ==
  /\ pc = "flow_grow"
  /\ GrowCondition
  /\ rhs' \in Vectors
  /\ f' = FlowVector(w_sgn, rhs', last_f)
  /\ last_f' = f'
  /\ \E d \in StepLengths : curve_len' = FlowLen(curve_len, d, ZeroVector(f'))
  /\ num_pts' = num_pts + 1
  /\ UNCHANGED <<restVars, testVars, args, pc, err, eventstruct, gen_pars, manifold, wi,
                 di, w_sgn, integ_dircode, evec, evec_other, piece, ic, ic_dx,
                 f_ic, dx_perp, dx_perp_default>>

\* lines 952-986: a growth step whose correction gives up, break
FlowStepGivesUp ==
  /\ pc = "flow_grow"
  /\ GrowCondition
  /\ rhs' \in Vectors
  /\ f' = FlowVector(w_sgn, rhs', last_f)
  /\ last_f' = f'
  /\ pc' = "flow_gave_up"
  /\ UNCHANGED <<restVars, testVars, args, err, eventstruct, gen_pars, manifold, wi,
                 di, w_sgn, integ_dircode, evec, evec_other, piece, ic, ic_dx,
                 f_ic, curve_len, num_pts, dx_perp, dx_perp_default>>

\* lines 956-959: last_x is within dx of one of other_pts, break
FlowHitsOtherPoint ==
  /\ pc = "flow_grow"
  /\ GrowCondition
  /\ args.other_pts
  /\ pc' = "flow_hit"
  /\ UNCHANGED <<restVars, flowVars, testVars, mainVars>>

\* line 952: the length limit or the point limit ends the loop
FlowEnd ==
  /\ pc = "flow_grow"
  /\ ~GrowCondition
  /\ pc' = "flow_done"
  /\ UNCHANGED <<restVars, flowVars, testVars, mainVars>>

FlowNext ==
  \/ FlowFirstPoint
  \/ FlowFirstFails
  \/ FlowStep
  \/ FlowStepGivesUp
  \/ FlowHitsOtherPoint
  \/ FlowEnd

SpecFlow == FlowInit /\ [][FlowNext]_vars

\* a growth step was taken: its point was accepted, or its correction gave up
FlowStepped == pc = "flow_grow" /\ (num_pts' = num_pts + 1 \/ pc' = "flow_gave_up")

\* C9 as claimed: f is negated before the prediction whenever any of its
\* components differs in sign from that of the previous step's flow vector.
C9_NegatedOnAnyDisagreement ==
  [][(FlowStepped /\ \E i \in 1..2 :
         Sign(Scale(-w_sgn, rhs')[i]) # Sign(last_f[i]))
       => f' = Scale(-1, Scale(-w_sgn, rhs'))]_vars

\* C9 (amended): f is negated before the prediction exactly when every one
\* of its components differs in sign (numpy sign: -1, 0, 1) from the
\* corresponding component of the previous step's flow vector (f_ic at the
\* first step); otherwise it is used as computed.
C9_NegatedOnFullDisagreement ==
  [][FlowStepped =>
       f' = IF \A i \in 1..2 : Sign(Scale(-w_sgn, rhs')[i]) # Sign(last_f[i])
              THEN Scale(-1, Scale(-w_sgn, rhs'))
              ELSE Scale(-w_sgn, rhs')]_vars

C9_Witness ==
  /\ pc = "flow_done"
  /\ num_pts = MaxFlowPts
  /\ f = Scale(-1, Scale(-w_sgn, rhs))
  /\ f[1] # 0
  /\ f[2] # 0

\* ------------------------------------------------------------------ test_fn
\* gen.getEvents(): for each exit surface None or the time of the event
EventOutcomes ==
  [Gamma_out_plus : {NoEvent} \cup {<<t>> : t \in 1..MaxT},
   Gamma_out_minus : {NoEvent} \cup {<<t>> : t \in 1..MaxT}]

\* a test that forgets to look at the other surface once plus was hit
TestOutcomePlusFirst(ev) ==
  IF ev.Gamma_out_plus = NoEvent
    THEN IF ev.Gamma_out_minus = NoEvent
           THEN [raised |-> TRUE, sgn |-> 0]
           ELSE [raised |-> FALSE, sgn |-> -1]
    ELSE [raised |-> FALSE, sgn |-> 1]

\* lines 776-802: the sign test_fn returns, or that it raises
TestOutcome(ev) ==
  IF ev.Gamma_out_plus = NoEvent
    THEN IF ev.Gamma_out_minus = NoEvent
           THEN [raised |-> TRUE, sgn |-> 0]
           ELSE [raised |-> FALSE, sgn |-> -1]
    ELSE IF ev.Gamma_out_minus = NoEvent
           THEN [raised |-> FALSE, sgn |-> 1]
           ELSE [raised |-> TRUE, sgn |-> 0]

TestInit ==
  /\ pc = "test_entry"
  /\ MainIdle(IdleArgs)
  /\ FlowIdle
  /\ TestIdle
  /\ RestIdle

\* lines 764-767: test_fn(x, dircode) installs x as initial condition
TestCall ==
  /\ pc = "test_entry"
  /\ x' \in 0..MaxX
  /\ dircode' \in {"f", "b"}
  /\ gen_ics' = <<x'>>
  /\ pc' = "test_compute"
  /\ UNCHANGED <<restVars, flowVars, mainVars, test, events, test_sgn>>

\* lines 768-771: gen.compute raised
TestComputeFails ==
  /\ pc = "test_compute"
  /\ test' = "failed"
  /\ err' = "RuntimeError: Integration failed"
  /\ pc' = "test_raised"
  /\ UNCHANGED <<restVars, flowVars, args, eventstruct, gen_pars, manifold, wi, di,
                 w_sgn, integ_dircode, evec, evec_other, piece, ic, ic_dx,
                 f_ic, curve_len, num_pts, dx_perp, dx_perp_default,
                 x, dircode, gen_ics, events, test_sgn>>

\* lines 769, 772: gen.compute returned a trajectory, the events are read
TestCompute ==
  /\ pc = "test_compute"
  /\ test' = "trajectory"
  /\ events' \in EventOutcomes
  /\ pc' = "test_events"
  /\ UNCHANGED <<restVars, flowVars, mainVars, x, dircode, gen_ics, test_sgn>>

\* lines 776-802
TestClassify ==
  /\ pc = "test_events"
  /\ IF TestOutcome(events).raised
       THEN /\ err' = "RuntimeError: Did not reach Gamma surfaces"
            /\ pc' = "test_raised"
            /\ test_sgn' = test_sgn
       ELSE /\ test_sgn' = TestOutcome(events).sgn
            /\ pc' = "test_returned"
            /\ err' = err
  /\ UNCHANGED <<restVars, flowVars, args, eventstruct, gen_pars, manifold, wi, di,
                 w_sgn, integ_dircode, evec, evec_other, piece, ic, ic_dx,
                 f_ic, curve_len, num_pts, dx_perp, dx_perp_default,
                 x, dircode, gen_ics, test, events>>

TestNext ==
  \/ TestCall
  \/ TestComputeFails
  \/ TestCompute
  \/ TestClassify

SpecTest == TestInit /\ [][TestNext]_vars

HitPlus  == events.Gamma_out_plus # NoEvent
HitMinus == events.Gamma_out_minus # NoEvent

\* C10: test_fn returns +1 exactly when the trajectory hit only
\* Gamma_out_plus and -1 exactly when it hit only Gamma_out_minus; when the
\* integrator fails, or neither or both surfaces are hit, it raises and
\* returns no sign.
C10_TestFnSign ==
  /\ pc = "test_returned" =>
       /\ test = "trajectory"
       /\ \/ test_sgn = 1 /\ HitPlus /\ ~HitMinus
          \/ test_sgn = -1 /\ HitMinus /\ ~HitPlus
  /\ pc = "test_raised" =>
       /\ test_sgn = 0
       /\ \/ test = "failed" /\ err = "RuntimeError: Integration failed"
          \/ /\ test = "trajectory"
             /\ HitPlus = HitMinus
             /\ err = "RuntimeError: Did not reach Gamma surfaces"

C10_Witness ==
  /\ pc = "test_raised"
  /\ HitPlus
  /\ HitMinus

\* ---------------------------------------------------------------- bisection
\* Points on the line through a and b are integers counted in ticks, 1.0
\* being 2^MaxIter ticks, so that every halving of the bracket done within
\* maxiter iterations is exact.
RECURSIVE Pow2(_)
Pow2(k) == IF k = 0 THEN 1 ELSE 2 * Pow2(k - 1)

BisOne == Pow2(MaxIter)

\* The functions bisected: "id" is func(x) = x; "sgn" returns +1 from the
\* tick c on and -1 before it (a test function like test_fn); "const"
\* returns 1 everywhere.  func raises RuntimeError at the points of bad.
FuncSet ==
  [kind : {"id", "sgn", "const"},
   c    : {1, 1 - BisOne \div 2},
   bad  : {{}, {0}, {BisOne}, {BisOne \div 2}}]

FuncValue(fn, pt) ==
  IF fn.kind = "id" THEN pt
  ELSE IF fn.kind = "sgn" THEN (IF pt >= fn.c THEN 1 ELSE -1)
  ELSE 1

FuncRaises(fn, pt) == pt \in fn.bad

BisArgSets ==
  [func    : FuncSet,
   a       : {-BisOne, 0, BisOne},
   b       : {-BisOne, 0, BisOne},
   xtol    : {1, 2, BisOne},
   maxiter : 1..MaxIter,
   caller  : {"direct", "onto_manifold"}]

BisInit ==
  /\ pc = "bis_entry"
  /\ MainIdle(IdleArgs)
  /\ FlowIdle
  /\ TestIdle
  /\ FFIdle
  /\ FPIdle
  /\ LateIdle
  /\ bis_args \in BisArgSets
  /\ bis = [a |-> bis_args.a, b |-> bis_args.b, eva |-> 0, evb |-> 0, i |-> 0,
            dist |-> 0, p |-> 0, ev |-> 0]
  /\ calls = <<>>
  /\ ret = 0

FuncFailed == "RuntimeError: func failed"

\* line 621: eva = func(a, *args)
BisEvalA ==
  /\ pc = "bis_entry"
  /\ calls' = Append(calls, bis.a)
  /\ IF FuncRaises(bis_args.func, bis.a)
       THEN pc' = "bis_raised" /\ err' = FuncFailed /\ bis' = bis
       ELSE /\ bis' = [bis EXCEPT !.eva = FuncValue(bis_args.func, bis.a)]
            /\ pc' = "bis_evb"
            /\ err' = err
  /\ UNCHANGED <<notBisVars, bis_args, ret>>

\* line 622: evb = func(b, *args)
BisEvalB ==
  /\ pc = "bis_evb"
  /\ calls' = Append(calls, bis.b)
  /\ IF FuncRaises(bis_args.func, bis.b)
       THEN pc' = "bis_raised" /\ err' = FuncFailed /\ bis' = bis
       ELSE /\ bis' = [bis EXCEPT !.evb = FuncValue(bis_args.func, bis.b)]
            /\ pc' = "bis_assert"
            /\ err' = err
  /\ UNCHANGED <<notBisVars, bis_args, ret>>

\* an assertion that lets a zero product through
BracketedOrZero(eva, evb) == eva * evb <= 0

\* line 623: assert (eva*evb < 0)
Bracketed(eva, evb) == eva * evb < 0

\* lines 623-624
BisAssert ==
  /\ pc = "bis_assert"
  /\ IF Bracketed(bis.eva, bis.evb)
       THEN pc' = "bis_loop" /\ bis' = [bis EXCEPT !.i = 1] /\ err' = err
       ELSE pc' = "bis_raised" /\ err' = "AssertionError" /\ bis' = bis
  /\ UNCHANGED <<notBisVars, bis_args, calls, ret>>

\* a loop that runs once too often
LoopContinuesOnceMore(i, maxiter) == i <= maxiter + 1

\* line 625: while i<=maxiter
LoopContinues(i, maxiter) == i <= maxiter

\* lines 625-629, 642: the midpoint, returned when the half-width is below
\* xtol; the iteration-limit error when the loop has run out
BisLoopTop ==
  /\ pc = "bis_loop"
  /\ IF LoopContinues(bis.i, bis_args.maxiter)
       THEN LET dist == (bis.b - bis.a) \div 2
                pt   == bis.a + dist
            IN  /\ bis' = [bis EXCEPT !.dist = dist, !.p = pt]
                /\ IF Abs(dist) < bis_args.xtol
                     THEN pc' = "bis_returned" /\ ret' = pt
                     ELSE pc' = "bis_mid" /\ ret' = ret
                /\ err' = err
       ELSE /\ pc' = "bis_raised"
            /\ err' = "RuntimeError: Method failed"
            /\ bis' = bis
            /\ ret' = ret
  /\ UNCHANGED <<notBisVars, bis_args, calls>>

\* a bisection without the except clause of lines 632-633
MidFailurePropagates == FALSE

\* lines 630-633: a RuntimeError of func at the midpoint is caught and the
\* midpoint returned
MidFailureReturnsMidpoint == TRUE

\* a bisection that does not test for an exact root
IsRootNever(ev) == FALSE

\* line 634: if ev == 0
IsRoot(ev) == ev = 0

SameSideAsB(ev, eva) == ev * eva < 0

\* line 637: ev*eva > 0, the midpoint replaces a
SameSide(ev, eva) == ev * eva > 0

\* lines 630-641: evaluate func at the midpoint and halve the bracket
BisEvalMid ==
  /\ pc = "bis_mid"
  /\ calls' = Append(calls, bis.p)
  /\ IF FuncRaises(bis_args.func, bis.p)
       THEN /\ bis' = bis
            /\ IF MidFailureReturnsMidpoint
                 THEN pc' = "bis_returned" /\ ret' = bis.p /\ err' = err
                 ELSE pc' = "bis_raised" /\ ret' = ret /\ err' = FuncFailed
       ELSE LET ev == FuncValue(bis_args.func, bis.p) IN
            /\ err' = err
            /\ IF IsRoot(ev)
                 THEN /\ pc' = "bis_returned"
                      /\ ret' = bis.p
                      /\ bis' = [bis EXCEPT !.ev = ev]
                 ELSE /\ pc' = "bis_loop"
                      /\ ret' = ret
                      /\ bis' = IF SameSide(ev, bis.eva)
                                  THEN [bis EXCEPT !.ev = ev, !.i = bis.i + 1,
                                                   !.a = bis.p, !.eva = ev]
                                  ELSE [bis EXCEPT !.ev = ev, !.i = bis.i + 1,
                                                   !.b = bis.p]
  /\ UNCHANGED <<notBisVars, bis_args>>

\* lines 805-808: onto_manifold returns what bisection returned
OntoManifoldReturns ==
  /\ pc = "bis_returned"
  /\ bis_args.caller = "onto_manifold"
  /\ pc' = "om_returned"
  /\ UNCHANGED <<notBisVars, bisVars, err>>

\* lines 809-822: AssertionError becomes a RuntimeError, RuntimeError is
\* raised again
OntoManifoldRaises ==
  /\ pc = "bis_raised"
  /\ bis_args.caller = "onto_manifold"
  /\ err' = IF err = "AssertionError"
              THEN "RuntimeError: dx_perp too small?"
              ELSE err
  /\ pc' = "om_raised"
  /\ UNCHANGED <<notBisVars, bisVars>>

BisNext ==
  \/ BisEvalA
  \/ BisEvalB
  \/ BisAssert
  \/ BisLoopTop
  \/ BisEvalMid
  \/ OntoManifoldReturns
  \/ OntoManifoldRaises

SpecBisect == BisInit /\ [][BisNext]_vars

\* bisection, or onto_manifold around it, has returned / has raised
BisReturned == pc \in {"bis_returned", "om_returned"}
BisRaised   == pc \in {"bis_raised", "om_raised"}
BisFinished == BisReturned \/ BisRaised

\* both bracket ends were evaluated and the assertion of line 623 was passed
BisPastAssert == pc \in {"bis_loop", "bis_mid"} \/ BisFinished

\* the number of midpoints func was called at
MidCalls == IF Len(calls) > 2 THEN Len(calls) - 2 ELSE 0

EndsEvaluate ==
  /\ ~FuncRaises(bis_args.func, bis_args.a)
  /\ ~FuncRaises(bis_args.func, bis_args.b)

EndsProduct ==
  FuncValue(bis_args.func, bis_args.a) * FuncValue(bis_args.func, bis_args.b)

\* C11: bisection fails with the not-bracketed error whenever
\* func(a)*func(b) is not strictly negative at entry, and then func has been
\* called at a and at b only, never at a midpoint.
C11_NotBracketedFails ==
  (EndsEvaluate /\ EndsProduct >= 0 /\ BisPastAssert) =>
     /\ BisRaised
     /\ pc = "bis_raised" => err = "AssertionError"
     /\ calls = <<bis_args.a, bis_args.b>>
     /\ bis.i = 0

C11_Witness ==
  /\ pc = "bis_raised"
  /\ err = "AssertionError"
  /\ EndsProduct = 0
  /\ calls = <<bis_args.a, bis_args.b>>

\* the reasons for which bisection returns a point
ReturnedOnTolerance == Abs(bis.dist) < bis_args.xtol
ReturnedOnRoot ==
  /\ MidCalls > 0
  /\ calls[Len(calls)] = ret
  /\ ~FuncRaises(bis_args.func, ret)
  /\ FuncValue(bis_args.func, ret) = 0
ReturnedOnFailure ==
  /\ MidCalls > 0
  /\ calls[Len(calls)] = ret
  /\ FuncRaises(bis_args.func, ret)

\* C12 as claimed: unless the half-width drops below xtol or func returns 0
\* at a midpoint within maxiter iterations, bisection raises the
\* iteration-limit error instead of returning a point; func is called at no
\* more than maxiter midpoints.
C12_ReturnsOnlyConverged ==
  /\ BisReturned => (ReturnedOnTolerance \/ ReturnedOnRoot)
  /\ MidCalls <= bis_args.maxiter

\* C12 (amended): unless, within maxiter iterations, the half-width drops
\* below xtol, func returns 0 at a midpoint or func raises RuntimeError at a
\* midpoint, bisection raises the iteration-limit error instead of returning
\* a point; func is called at no more than maxiter midpoints.
C12_IterationLimit ==
  /\ BisReturned => (ReturnedOnTolerance \/ ReturnedOnRoot \/ ReturnedOnFailure)
  /\ MidCalls <= bis_args.maxiter
  /\ (BisRaised /\ err = "RuntimeError: Method failed") =>
        /\ MidCalls = bis_args.maxiter
        /\ ~ReturnedOnTolerance

C12_Witness ==
  /\ pc = "bis_raised"
  /\ err = "RuntimeError: Method failed"
  /\ bis_args.maxiter = MaxIter
  /\ MidCalls = MaxIter

\* the least k with num <= 2^k * den: ceil(log2(num/den)) for num >= den
RECURSIVE CeilLog2(_, _)
CeilLog2(num, den) == IF num <= den THEN 0 ELSE 1 + CeilLog2(num, 2 * den)

\* f(x) = x on the bracket [-1, 1], evaluated without failure
IdentityOnUnitBracket ==
  /\ bis_args.func.kind = "id"
  /\ bis_args.func.bad = {}
  /\ bis_args.a = -BisOne
  /\ bis_args.b = BisOne

\* C13: for f(x) = x on [-1, 1] bisection returns a point within xtol of 0
\* after at most ceil(log2(2/xtol)) iterations (xtol <= 1).
C13_IdentityConverges ==
  (IdentityOnUnitBracket /\ BisFinished) =>
     /\ BisReturned
     /\ Abs(ret) < bis_args.xtol
     /\ bis.i <= CeilLog2(2 * BisOne, bis_args.xtol)

C13_Witness ==
  /\ IdentityOnUnitBracket
  /\ pc = "bis_returned"
  /\ bis_args.xtol = BisOne
  /\ ret = 0

\* C14: a RuntimeError of func at a midpoint makes bisection, and
\* onto_manifold around it, return that midpoint; a RuntimeError of func at
\* a or b propagates out of both.
C14_MidpointFailureReturned ==
  /\ (BisFinished /\ MidCalls > 0
        /\ FuncRaises(bis_args.func, calls[Len(calls)])) =>
       /\ BisReturned
       /\ ret = calls[Len(calls)]
  /\ (BisFinished /\ ~EndsEvaluate) =>
       /\ BisRaised
       /\ err = FuncFailed
       /\ MidCalls = 0

C14_Witness ==
  /\ pc = "om_returned"
  /\ MidCalls = 2
  /\ FuncRaises(bis_args.func, ret)
  /\ ret = calls[Len(calls)]

\* ---------------------------------------------------------------------------
\* find_fixedpoints (lines 425-533) and base_n_counter (lines 2343-2374).
\* Coordinates and eps are integers in one common unit.  The domain of a
\* variable given as a range is [0, sub_hi] in the subdomain argument and
\* [0, dep_hi] in gen.variables[xname].depdomain.  fsolve is an oracle: it
\* ends at any of a few points, with ier = 1 (success) or not, or at a
\* non-finite value.
\* ---------------------------------------------------------------------------

\* n ** D
RECURSIVE Pow(_, _)
Pow(n, d) == IF d = 0 THEN 1 ELSE n * Pow(n, d - 1)

\* lines 441-452: D counts the entries of subdomain that are ranges
RECURSIVE CountRanges(_)
CountRanges(doms) ==
  IF doms = <<>> THEN 0
  ELSE (IF Head(doms) = "range" THEN 1 ELSE 0) + CountRanges(Tail(doms))

\* subdomain: per variable a range or a fixed value, at least one range
Subdomains ==
  {doms \in UNION {[1..m -> {"range", "fixed"}] : m \in 1..MaxD} :
     CountRanges(doms) >= 1}

FFArgSets ==
  [n : 1..MaxN, subdomain : Subdomains, maxsearch : {2, 3, MaxSearch},
   eps : {1, 2}, sub_hi : {1, 2}, dep_hi : {2}]

FFInit ==
  /\ pc = "ff_entry"
  /\ MainIdle(IdleArgs)
  /\ FlowIdle
  /\ TestIdle
  /\ BisIdle
  /\ FPIdle
  /\ LateIdle
  /\ ff_args \in FFArgSets
  /\ ff = [n |-> ff_args.n, D |-> 0, counter |-> <<>>, done |-> 0, res |-> NoRes]
  /\ fps = <<>>
  /\ found = <<>>
  /\ starts = <<>>

\* lines 441-453
FFCountDomains ==
  /\ pc = "ff_entry"
  /\ ff' = [ff EXCEPT !.D = CountRanges(ff_args.subdomain)]
  /\ pc' = "ff_reduce"
  /\ UNCHANGED <<notFFVars, err, ff_args, fps, found, starts>>

\* line 458: n**D > maxsearch
ExceedsSearch(n, d, maxsearch) == Pow(n, d) > maxsearch

TooFewBelowTwo(n) == n < 2

\* line 462: n < 3
TooFew(n) == n < 3

\* line 463: raise "maxsearch too small"; raising a string is itself an error
StringRaised ==
  "TypeError: exceptions must be old-style classes or derived from BaseException, not str"

\* lines 457-463: one pass of the loop that lowers n
FFReduceN ==
  /\ pc = "ff_reduce"
  /\ IF ExceedsSearch(ff.n, ff.D, ff_args.maxsearch)
       THEN /\ ff' = [ff EXCEPT !.n = ff.n - 1]
            /\ IF TooFew(ff.n - 1)
                 THEN pc' = "ff_raised" /\ err' = StringRaised
                 ELSE pc' = "ff_reduce" /\ UNCHANGED err
       ELSE /\ pc' = "ff_setup"
            /\ UNCHANGED <<ff, err>>
  /\ UNCHANGED <<notFFVars, ff_args, fps, found, starts>>

\* zeros((d,))
Zeros(d) == [ix \in 1..d |-> 0]

RECURSIVE IncFromKeepsDigit(_, _, _)
IncFromKeepsDigit(counter, ix, maxval) ==
  IF ix = Len(counter) THEN Zeros(Len(counter))
  ELSE IF counter[ix + 1] < maxval THEN [counter EXCEPT ![ix + 1] = @ + 1]
  ELSE IncFromKeepsDigit(counter, ix + 1, maxval)

\* lines 2365-2374: the loop of base_n_counter.inc from digit ix (0-based)
RECURSIVE IncFrom(_, _, _)
IncFrom(counter, ix, maxval) ==
  IF ix = Len(counter) THEN Zeros(Len(counter))
  ELSE IF counter[ix + 1] < maxval THEN [counter EXCEPT ![ix + 1] = @ + 1]
  ELSE IncFrom([counter EXCEPT ![ix + 1] = 0], ix + 1, maxval)

\* lines 2363-2364: base_n_counter.inc
Inc(counter, maxval) == IncFrom(counter, 0, maxval)

\* lines 497-511: fps = [], d_posns = base_n_counter(n, D)
FFSetup ==
  /\ pc = "ff_setup"
  /\ fps' = <<>>
  /\ ff' = [ff EXCEPT !.counter = Zeros(ff.D)]
  /\ pc' = "ff_loop"
  /\ UNCHANGED <<notFFVars, err, ff_args, found, starts>>

\* the points fsolve may end at: on the diagonal, and one with only its last
\* coordinate beyond every domain
Diag(v, d) == [ix \in 1..d |-> v]
LastOut(d) == [ix \in 1..d |-> IF ix = d THEN MaxRoot ELSE 0]
RootPoints(d) == {Diag(v, d) : v \in 0..MaxRoot} \cup {LastOut(d)}

\* res of line 514: res[0], whether it is finite, res[2]
SolverResults(d) ==
  [xinf : RootPoints(d), finite : {TRUE}, ier : {1, 5}]
    \cup {[xinf |-> Diag(0, d), finite |-> FALSE, ier |-> 5]}

RECURSIVE SumSq(_, _, _)
SumSq(p, q, ix) ==
  IF ix = 0 THEN 0
  ELSE (p[ix] - q[ix]) * (p[ix] - q[ix]) + SumSq(p, q, ix - 1)

CloseOrAtEps(p, q, eps) == SumSq(p, q, Len(p)) <= eps * eps

\* line 519: norm(fp - xinf_val) < eps, in squares (eps > 0)
Close(p, q, eps) == SumSq(p, q, Len(p)) < eps * eps

\* line 519: sometrue([norm(fp-xinf_val)<eps for fp in fps])
SeenBefore(xinf, eps) == \E q \in 1..Len(fps) : Close(fps[q], xinf, eps)

\* line 525: depdomain.contains(v) is not notcontained
Contains(v, lo, hi) == lo <= v /\ v <= hi

\* lines 520-525: ok
SolverOk(r, dep_hi) ==
  /\ r.ier = 1
  /\ \A ix \in 1..Len(r.xinf) : Contains(r.xinf[ix], 0, dep_hi)

\* lines 518-527: whether xinf_val is appended to fps
Accepted(r) ==
  /\ r.finite
  /\ ~SeenBefore(r.xinf, ff_args.eps)
  /\ SolverOk(r, ff_args.dep_hi)

\* the roots recorded in found
FoundSet == {found[q] : q \in 1..Len(found)}

\* lines 512-532: one pass of the loop over the grid
FFSolve ==
  /\ pc = "ff_loop"
  /\ ff.done < Pow(ff.n, ff.D)
  /\ starts' = Append(starts, ff.counter)
  /\ \E r \in SolverResults(ff.D) :
       /\ fps' = IF Accepted(r) THEN Append(fps, r.xinf) ELSE fps
       /\ found' = IF r.finite /\ SolverOk(r, ff_args.dep_hi) /\ r.xinf \notin FoundSet
                     THEN Append(found, r.xinf) ELSE found
       /\ ff' = [ff EXCEPT !.res = r, !.counter = Inc(ff.counter, ff.n - 1),
                           !.done = @ + 1]
  /\ UNCHANGED <<notFFVars, pc, err, ff_args>>

\* line 533
FFReturn ==
  /\ pc = "ff_loop"
  /\ ff.done = Pow(ff.n, ff.D)
  /\ pc' = "ff_returned"
  /\ UNCHANGED <<notFFVars, err, ffVars>>

FFNext ==
  \/ FFCountDomains
  \/ FFReduceN
  \/ FFSetup
  \/ FFSolve
  \/ FFReturn

SpecFixedPoints == FFInit /\ [][FFNext]_vars

\* find_fixedpoints is past the loop that lowers n / has raised there
FFPastReduce == pc \in {"ff_setup", "ff_loop", "ff_returned"}
FFRaised == pc = "ff_raised"

\* the number of range entries of the subdomain argument, and n ** that
FreeAxes == CountRanges(ff_args.subdomain)
Searches(n) == Pow(n, FreeAxes)

\* C15: the number of solver starts n^D never exceeds maxsearch: n is lowered
\* one at a time until n^D <= maxsearch, the search fails and launches no
\* solve when even n = 3 gives more than maxsearch starts, and a requested n
\* with n^D <= maxsearch is used unchanged.
C15_SearchesWithinMaxsearch ==
  /\ \A m \in (ff.n + 1)..ff_args.n : Searches(m) > ff_args.maxsearch
  /\ Len(starts) <= ff_args.maxsearch
  /\ FFPastReduce =>
       /\ Searches(ff.n) <= ff_args.maxsearch
       /\ Len(starts) <= Searches(ff.n)
       /\ Searches(ff_args.n) <= ff_args.maxsearch => ff.n = ff_args.n
       /\ ff.n < ff_args.n => ff.n >= 3
  /\ FFRaised =>
       /\ Searches(3) > ff_args.maxsearch
       /\ starts = <<>>
  /\ (FFPastReduce \/ FFRaised) =>
       (FFRaised <=> (Searches(ff_args.n) > ff_args.maxsearch
                        /\ Searches(3) > ff_args.maxsearch))

C15_Witness ==
  /\ pc = "ff_returned"
  /\ ff.n = 3
  /\ ff_args.n = MaxN
  /\ Len(starts) = ff_args.maxsearch

\* every index tuple of a grid of n values on each of d axes
IndexTuples(n, d) == [1..d -> 0..(n - 1)]

StartSet == {starts[q] : q \in 1..Len(starts)}

\* C16: one solve is started from each point of the grid: over the n^D passes
\* of the loop the counter visits every index tuple of {0..n-1}^D exactly
\* once, and incrementing it from (n-1, ..., n-1) resets it to all zeros.
C16_GridVisitedOnce ==
  /\ \A q, r \in 1..Len(starts) : q # r => starts[q] # starts[r]
  /\ StartSet \subseteq IndexTuples(ff.n, FreeAxes)
  /\ pc = "ff_returned" =>
       /\ StartSet = IndexTuples(ff.n, FreeAxes)
       /\ Len(starts) = Searches(ff.n)
       /\ starts[Len(starts)] = [q \in 1..FreeAxes |-> ff.n - 1]
       /\ ff.counter = [q \in 1..FreeAxes |-> 0]

C16_Witness ==
  /\ pc = "ff_returned"
  /\ FreeAxes = 2
  /\ ff.n = 3
  /\ Len(starts) = 9
  /\ starts[4] = <<0, 1>>

\* distance below eps, over the free coordinates
WithinEps(p, q) == SumSq(p, q, Len(p)) < ff_args.eps * ff_args.eps

Returned(p) == \E q \in 1..Len(fps) : fps[q] = p

NoTwoReturnedWithinEps ==
  \A q, r \in 1..Len(fps) : q # r => ~WithinEps(fps[q], fps[r])

\* C17 as claimed: no two returned points are closer than eps, and of
\* accepted-quality roots within eps of each other the one found first is
\* the one returned.
C17_FirstFoundOfCloseRootsReturned ==
  /\ NoTwoReturnedWithinEps
  /\ \A q, r \in 1..Len(found) :
       (q < r /\ WithinEps(found[q], found[r])) =>
          (Returned(found[q]) /\ ~Returned(found[r]))

\* C17 (amended): no two returned points are closer than eps, and an
\* accepted-quality root is returned exactly when no root found before it
\* and itself returned lies within eps of it.
C17_ReturnedUnlessCloseToEarlierReturned ==
  /\ NoTwoReturnedWithinEps
  /\ \A r \in 1..Len(found) :
       Returned(found[r]) <=>
          ~\E q \in 1..(r - 1) :
              Returned(found[q]) /\ WithinEps(found[q], found[r])
  /\ \A q \in 1..Len(fps) : fps[q] \in FoundSet

C17_Witness ==
  /\ pc = "ff_returned"
  /\ Len(found) = 3
  /\ Len(fps) = 2
  /\ WithinEps(found[2], found[3])
  /\ Returned(found[3])
  /\ ~Returned(found[2])

\* C18: a root is returned only if the solver reported success and every
\* free coordinate lies within its declared domain, so that no returned point
\* has a free coordinate outside the range requested in the subdomain
\* argument.
C18_ReturnedWithinSubdomain ==
  \A q \in 1..Len(fps) :
    /\ fps[q] \in FoundSet
    /\ \A ix \in 1..Len(fps[q]) :
         /\ 0 <= fps[q][ix] /\ fps[q][ix] <= ff_args.dep_hi
         /\ 0 <= fps[q][ix] /\ fps[q][ix] <= ff_args.sub_hi

\* ---------------------------------------------------------------------------
\* fixedpoint_2D(gen, pt, coords, jac, eps=...) (lines 1241-1268), whose
\* constructor runs fixedpoint_nD.__init__ (lines 1143-1206).  An eigenvalue
\* is a pair of integer real and imaginary parts; resid is gen.Rhs(0, pt,
\* gen.pars) on the coordinates of the (sub-)system, one entry per dimension;
\* evals holds one eigenvalue per dimension, as eig returns them.
\* ---------------------------------------------------------------------------

Eigenvalues == [re : -MaxEig..MaxEig, im : {-1, 0, 1}]

Residuals == {-MaxRes} \cup 0..MaxRes

\* the further eigenvalues of a system of more than two dimensions
MoreEigenvalues == [re : {-1, 0, 1}, im : {0}]

\* eig(self.D) of line 1209: as many eigenvalues as the system has dimensions
EigenvalueSeqs(m) ==
  IF m = 2 THEN Eigenvalues \X Eigenvalues
  ELSE Eigenvalues \X Eigenvalues \X MoreEigenvalues

FPArgSets ==
  UNION {[evals : EigenvalueSeqs(m), resid : [1..m -> Residuals], eps : {0, 1},
          dimension : {m}, jac : BOOLEAN] : m \in {2, 3}}

FPInit ==
  /\ pc = "fp_entry"
  /\ MainIdle(IdleArgs)
  /\ FlowIdle
  /\ TestIdle
  /\ BisIdle
  /\ FFIdle
  /\ LateIdle
  /\ fp_args \in FPArgSets
  /\ fp = [classification |-> "", stability |-> "", degenerate |-> FALSE,
           eval_s |-> 0, eval_u |-> 0, evec_s |-> 0, evec_u |-> 0]

NotAFixedPoint ==
  "ValueError: Given point is not a fixed point of the system at given tolerance"

\* lines 1149-1195: the checks before the residual; jac=None cannot be used
FPCheckArgs ==
  /\ pc = "fp_entry"
  /\ IF fp_args.jac
       THEN pc' = "fp_residual" /\ UNCHANGED err
       ELSE pc' = "fp_raised" /\ err' = "NotImplementedError"
  /\ UNCHANGED <<notFPVars, fpVars>>

NotFixedFirstOnly(resid, eps) == Abs(resid[1]) > eps

\* line 1202: sometrue([abs(fp_i) > eps for fp_i in fp_evaluated])
NotFixed(resid, eps) == \E q \in 1..Len(resid) : Abs(resid[q]) > eps

\* lines 1196-1204
FPResidual ==
  /\ pc = "fp_residual"
  /\ IF NotFixed(fp_args.resid, fp_args.eps)
       THEN pc' = "fp_raised" /\ err' = NotAFixedPoint
       ELSE pc' = "fp_classify" /\ UNCHANGED err
  /\ UNCHANGED <<notFPVars, fpVars>>

\* isreal(z)
IsReal(z) == z.im = 0

\* abs(z) < eps for a complex z, in squares (eps >= 0)
AbsBelow(z, eps) == z.re * z.re + z.im * z.im < eps * eps

ClassificationFirstRealOnly(evals) ==
  IF IsReal(evals[1])
    THEN IF Sign(evals[1].re) = Sign(evals[2].re) THEN "node" ELSE "saddle"
    ELSE "spiral"

\* lines 1249, 1253-1260
Classification(evals) ==
  IF IsReal(evals[1]) /\ IsReal(evals[2])
    THEN IF Sign(evals[1].re) = Sign(evals[2].re) THEN "node" ELSE "saddle"
    ELSE "spiral"

\* lines 1261-1267
Stability(evals) ==
  IF \A k \in 1..Len(evals) : evals[k].re < 0 THEN "s"
  ELSE IF \A k \in 1..Len(evals) : evals[k].re = 0 THEN "c"
  ELSE "u"

\* lines 1250-1252, 1268
Degenerate(evals, eps) ==
  \/ AbsBelow(evals[1], eps)
  \/ AbsBelow(evals[2], eps)
  \/ AbsBelow([re |-> evals[1].re - evals[2].re,
               im |-> evals[1].im - evals[2].im], eps)

\* line 1205: self._classify(), lines 1248-1268
FPClassify ==
  /\ pc = "fp_classify"
  /\ fp' = [fp EXCEPT !.classification = Classification(fp_args.evals),
                       !.stability = Stability(fp_args.evals),
                       !.degenerate = Degenerate(fp_args.evals, fp_args.eps)]
  /\ pc' = "fp_dimension"
  /\ UNCHANGED <<notFPVars, err, fp_args>>

\* lines 1206, 1245-1246
FPDimension ==
  /\ pc = "fp_dimension"
  /\ IF fp_args.dimension # 2
       THEN pc' = "fp_raised" /\ err' = "TypeError: This class is for 2D systems only"
       ELSE pc' = "fp_constructed" /\ UNCHANGED err
  /\ UNCHANGED <<notFPVars, fpVars>>

\* lines 731-741: find_saddle_manifolds(fp, ...) picks the stable and the
\* unstable eigenvalue; evec_s, evec_u are the indices into fp.evecs taken
FPSelectEigen ==
  /\ pc = "fp_constructed"
  /\ IF fp.classification = "saddle" /\ ~fp.degenerate
       THEN /\ fp' = IF fp_args.evals[1].re < 0
                       THEN [fp EXCEPT !.eval_s = fp_args.evals[1].re,
                                       !.eval_u = fp_args.evals[2].re,
                                       !.evec_s = 0, !.evec_u = 1]
                       ELSE [fp EXCEPT !.eval_s = fp_args.evals[2].re,
                                       !.eval_u = fp_args.evals[1].re,
                                       !.evec_s = 1, !.evec_u = 0]
            /\ pc' = "fsm_selected"
            /\ UNCHANGED err
       ELSE /\ pc' = "fsm_rejected"
            /\ err' = "AssertionError"
            /\ UNCHANGED fp
  /\ UNCHANGED <<notFPVars, fp_args>>

FPNext ==
  \/ FPCheckArgs
  \/ FPResidual
  \/ FPClassify
  \/ FPDimension
  \/ FPSelectEigen

SpecFixedPoint2D == FPInit /\ [][FPNext]_vars

FPConstructed == pc = "fp_constructed"
FPFinished == pc \in {"fp_constructed", "fp_raised"}

BothReal == fp_args.evals[1].im = 0 /\ fp_args.evals[2].im = 0
OppositeSign == fp_args.evals[1].re * fp_args.evals[2].re < 0
SameSign ==
  \/ fp_args.evals[1].re > 0 /\ fp_args.evals[2].re > 0
  \/ fp_args.evals[1].re < 0 /\ fp_args.evals[2].re < 0
  \/ fp_args.evals[1].re = 0 /\ fp_args.evals[2].re = 0

\* C19 as claimed: 'node' exactly when both eigenvalues are real with equal
\* sign, 'saddle' exactly when both are real with opposite sign, 'spiral' in
\* every other case.
C19_SaddleIffOppositeSign ==
  FPConstructed =>
    /\ fp.classification = "node" <=> (BothReal /\ SameSign)
    /\ fp.classification = "saddle" <=> (BothReal /\ OppositeSign)
    /\ fp.classification = "spiral" <=>
          ~(BothReal /\ SameSign) /\ ~(BothReal /\ OppositeSign)

\* C19 (amended): 'node' exactly when both eigenvalues are real with equal
\* sign, 'saddle' exactly when both are real and their signs (-1, 0 or +1)
\* differ, 'spiral' exactly when they are not both real.
C19_SaddleIffSignsDiffer ==
  FPConstructed =>
    /\ fp.classification = "node" <=> (BothReal /\ SameSign)
    /\ fp.classification = "saddle" <=> (BothReal /\ ~SameSign)
    /\ fp.classification = "spiral" <=> ~BothReal

C19_Witness ==
  /\ FPConstructed
  /\ fp.classification = "saddle"
  /\ fp_args.evals[1].re = 0
  /\ fp_args.evals[2].re = MaxEig
  /\ BothReal

Residual(q) ==
  IF fp_args.resid[q] < 0 THEN -fp_args.resid[q] ELSE fp_args.resid[q]

\* C20 as claimed: a fixed point object is constructed only for a point whose
\* residual of Rhs on the coordinate subset is below eps; for any other point
\* construction fails with the not-a-fixed-point error and no classified
\* object results.
C20_ConstructedOnlyBelowEps ==
  /\ FPConstructed => \A q \in 1..fp_args.dimension : Residual(q) < fp_args.eps
  /\ (FPFinished /\ fp_args.jac
        /\ \E q \in 1..fp_args.dimension : ~(Residual(q) < fp_args.eps)) =>
       /\ pc = "fp_raised"
       /\ err = NotAFixedPoint
       /\ fp.classification = ""

\* C20 (amended): a fixed point object is constructed only for a point with
\* no component of Rhs on the coordinate subset above eps in absolute value;
\* for any other point construction fails, with the not-a-fixed-point error
\* when the earlier argument checks pass, and no classified object results.
C20_ConstructedOnlyWithinEps ==
  /\ (FPConstructed \/ fp.classification # "") =>
       \A q \in 1..fp_args.dimension : Residual(q) <= fp_args.eps
  /\ (FPFinished /\ \E q \in 1..fp_args.dimension : Residual(q) > fp_args.eps) =>
       /\ pc = "fp_raised"
       /\ fp_args.jac => err = NotAFixedPoint
       /\ fp.classification = ""

C20_Witness ==
  /\ FPConstructed
  /\ fp_args.eps = 1
  /\ Residual(1) = 0
  /\ Residual(2) = fp_args.eps
  /\ fp.classification # ""

\* C25: within a branch each requested direction accumulates arclength from
\* the branch's initial arclength (0 when starting at the fixed point), so the
\* key of a point is sgn times the length traced in its own direction and a
\* direction grows until its own arclength reaches max_len, independently of
\* the direction processed before it.
C25_DirectionStartsAtBranchArclength ==
  (pc = "first_corr" /\ args.ic.kind = "None") => curve_len = 0

\* d1 < d2 for two values num / 4^exp
Smaller(d1, d2) == d1.num * Pow4(d2.exp) < d2.num * Pow4(d1.exp)

\* the number of times a value num/den above 1 can be multiplied by 3/4
\* before it is at most 1
RECURSIVE Shrinks(_, _)
Shrinks(num, den) == IF num <= den THEN 0 ELSE 1 + Shrinks(3 * num, 4 * den)

\* C26: every correction retry loop terminates: dx_perp_fac outside (0, 1)
\* is rejected with a ValueError before any event flag or generator parameter
\* is changed, each failed attempt strictly decreases dx_perp, onto_manifold is
\* attempted only while dx_perp > 1e-12, so only a bounded number of times.
C26_RetryLoopsTerminate ==
  [][/\ (pc = "entry" /\ ~(0 < args.dx_perp_fac /\ args.dx_perp_fac < 4)) =>
          /\ pc' = "raised"
          /\ err' = "ValueError: dx_perp_fac must be between 0 and 1"
          /\ eventstruct' = eventstruct
          /\ gen_pars' = gen_pars
     /\ (InCorrection /\ pc' = pc) =>
          /\ Smaller(dx_perp', dx_perp)
          /\ dx_perp.num > dx_perp_eps * Pow4(dx_perp.exp)
     /\ (InCorrection /\ pc' = "grow") =>
          dx_perp.num > dx_perp_eps * Pow4(dx_perp.exp)
     /\ dx_perp'.exp <= Shrinks(MaxDxPerp, dx_perp_eps)
    ]_vars

C26_Witness ==
  /\ pc = "step_corr"
  /\ dx_perp.exp = Shrinks(MaxDxPerp, dx_perp_eps)
  /\ dx_perp.num <= dx_perp_eps * Pow4(dx_perp.exp)
  /\ args.dx_perp = Real(MaxDxPerp)

\* pt lies on the segment between the bracket ends passed to bisection
OnInitialSegment(pt) ==
  \/ bis_args.a <= pt /\ pt <= bis_args.b
  \/ bis_args.b <= pt /\ pt <= bis_args.a

BisInLoop == pc \in {"bis_loop", "bis_mid"}

\* C27: throughout bisection func(a)*func(b) < 0 for the current pair (a, b),
\* both lie on the segment between the initial a and b, b - a is halved by
\* each completed iteration, and a returned point lies between the initial
\* bracket ends.
C27_BracketInvariant ==
  /\ (BisInLoop \/ BisReturned) =>
       /\ FuncValue(bis_args.func, bis.a) * FuncValue(bis_args.func, bis.b) < 0
       /\ OnInitialSegment(bis.a)
       /\ OnInitialSegment(bis.b)
       /\ (bis.b - bis.a) * Pow2(bis.i - 1) = bis_args.b - bis_args.a
  /\ BisReturned => OnInitialSegment(ret)

C27_Witness ==
  /\ pc = "bis_returned"
  /\ bis.i = MaxIter
  /\ bis.a # bis_args.a
  /\ bis.b # bis_args.b
  /\ ret # bis_args.a + (bis_args.b - bis_args.a) \div 2

\* C28: a fixedpoint_2D with classification 'saddle' and degenerate False has
\* two real eigenvalues, one strictly negative and one strictly positive, so
\* the selection at the start of find_saddle_manifolds yields
\* eval_s < 0 < eval_u with evec_s and evec_u the matching eigenvectors, in
\* whichever order the eigenvalues come.
C28_SaddleSelection ==
  /\ (FPConstructed /\ fp.classification = "saddle" /\ ~fp.degenerate) =>
       /\ BothReal
       /\ OppositeSign
  /\ pc = "fsm_selected" =>
       /\ fp.eval_s < 0
       /\ 0 < fp.eval_u
       /\ fp.eval_s = fp_args.evals[fp.evec_s + 1].re
       /\ fp.eval_u = fp_args.evals[fp.evec_u + 1].re
       /\ fp.evec_s # fp.evec_u

\* ---------------------------------------------------------------------------
\* dx_scaled_2D (lines 645-681), made at line 753 of find_saddle_manifolds
\* from dx and rel_scale.  y_scale and the step returned are exact fractions;
\* dir is one of the four axis directions, for which 2*atan2(dir[1],dir[0])/pi
\* is an integer.
\* ---------------------------------------------------------------------------

Scales == {0, 1, 2, MaxScale}

AxisDirs == {<<1, 0>>, <<0, 1>>, <<-1, 0>>, <<0, -1>>}

CoreIdle == MainIdle(IdleArgs) /\ FlowIdle /\ TestIdle /\ EarlyIdle

DxsInit ==
  /\ pc = "dxs_entry"
  /\ CoreIdle
  /\ FcpIdle
  /\ PerIdle
  /\ NcIdle
  /\ \E v \in 1..MaxDx, s \in Scales \X Scales :
       dxs = [dx |-> v, scale |-> s, x_scale |-> [num |-> 0, den |-> 1],
              y_scale |-> [num |-> 0, den |-> 1], dir |-> <<0, 0>>,
              step |-> [num |-> <<0, 0>>, den |-> 1]]

\* line 655: max(scale)
MaxOf(s) == IF s[1] >= s[2] THEN s[1] ELSE s[2]

\* line 657: scale[1]*1./scale[0]/m
YScale(s) == [num |-> s[2], den |-> s[1] * MaxOf(s)]

\* line 656: scale[0]/m, a true division (from __future__ import division)
XScale(s) == [num |-> s[1], den |-> MaxOf(s)]

\* lines 651-657: __init__
DxsConstruct ==
  /\ pc = "dxs_entry"
  /\ IF dxs.scale[1] > 0 /\ dxs.scale[2] > 0
       THEN /\ dxs' = [dxs EXCEPT !.x_scale = XScale(dxs.scale),
                                  !.y_scale = YScale(dxs.scale)]
            /\ pc' = "dxs_made"
            /\ UNCHANGED err
       ELSE /\ pc' = "dxs_raised"
            /\ err' = "AssertionError"
            /\ UNCHANGED dxs
  /\ UNCHANGED <<earlyVars, fcp, per, nc>>

\* line 663: 2*atan2(dir[1], dir[0])/pi for an axis direction
AngleOf(dir) ==
  IF dir = <<1, 0>> THEN 0
  ELSE IF dir = <<0, 1>> THEN 1
  ELSE IF dir = <<-1, 0>> THEN 2
  ELSE -1

\* line 668: self.dx*dir*(angle*self.y_scale+(1-angle))
StepOf(obj, dir) ==
  LET fac == AngleOf(dir) * obj.y_scale.num + (1 - AngleOf(dir)) * obj.y_scale.den
  IN  [num |-> <<obj.dx * dir[1] * fac, obj.dx * dir[2] * fac>>,
       den |-> obj.y_scale.den]

\* lines 659-668: __call__(dir)
DxsCall ==
  /\ pc = "dxs_made"
  /\ \E dir \in AxisDirs :
       dxs' = [dxs EXCEPT !.dir = dir, !.step = StepOf(dxs, dir)]
  /\ pc' = "dxs_called"
  /\ UNCHANGED <<earlyVars, err, fcp, per, nc>>

DxsNext ==
  \/ DxsConstruct
  \/ DxsCall

SpecScaled == DxsInit /\ [][DxsNext]_vars

\* the length of a step along an axis, times the step's denominator
AxisLength(st) == Abs(st.num[1]) + Abs(st.num[2])

\* C24: with rel_scale = (1, 10) a dx step in the pure y-direction is 10 times
\* larger than a dx step in the pure x-direction; with rel_scale = (1, 1) both
\* have length dx.
C24_YStepScaled ==
  pc = "dxs_called" =>
    /\ dxs.scale = <<1, MaxScale>> =>
         AxisLength(StepOf(dxs, <<0, 1>>)) = MaxScale * AxisLength(StepOf(dxs, <<1, 0>>))
    /\ dxs.scale = <<1, 1>> =>
         /\ AxisLength(StepOf(dxs, <<0, 1>>)) = dxs.dx * dxs.y_scale.den
         /\ AxisLength(StepOf(dxs, <<1, 0>>)) = dxs.dx * dxs.y_scale.den

(***************************************************************************)
(* filter_close_points (lines 2391-2406).  Points are pairs of integers,   *)
(* eps is a positive integer, and the 2-norm is compared in squares.       *)
(***************************************************************************)
FcpPoints == (0..MaxCoord) \X (0..1)

FcpPointSeqs == UNION {[1..n -> FcpPoints] : n \in 0..MaxFcpLen}

FcpInit ==
  /\ pc = "fcp_entry"
  /\ CoreIdle /\ DxsIdle /\ PerIdle /\ NcIdle
  /\ \E ps \in FcpPointSeqs, e \in 1..MaxEps :
       fcp = [pts |-> ps, eps |-> e, i |-> 0, j |-> 0,
              remaining |-> <<>>, out |-> <<>>]

\* norm(p - q, 2) ** 2
NormSq(p, q) == (p[1] - q[1]) * (p[1] - q[1]) + (p[2] - q[2]) * (p[2] - q[2])

\* line 2400: norm(p-pts[j],normord) < eps
Closer(p, q, eps) == NormSq(p, q) < eps * eps

\* lines 2401-2405: remaining.remove(j), ignoring an index already removed
RemoveIndex(remaining, j) == SelectSeq(remaining, LAMBDA k : k # j)

\* lines 2399-2405: for j in range(i+1, len(pts))
RECURSIVE FcpInner(_, _, _, _, _)
FcpInner(pts, eps, i, j, remaining) ==
  IF j > Len(pts) THEN remaining
  ELSE FcpInner(pts, eps, i, j + 1,
                IF Closer(pts[i], pts[j], eps) THEN RemoveIndex(remaining, j)
                ELSE remaining)

\* line 2398: for i, p in enumerate(pts), over every input point
RECURSIVE FcpOuter(_, _, _, _)
FcpOuter(pts, eps, i, remaining) ==
  IF i > Len(pts) THEN remaining
  ELSE FcpOuter(pts, eps, i + 1, FcpInner(pts, eps, i, i + 1, remaining))

\* line 2397 and the loops: the indices that remain (1-based here)
Remaining(pts, eps) == FcpOuter(pts, eps, 1, [k \in 1..Len(pts) |-> k])

\* line 2406: pts[remaining]
Take(pts, remaining) == [k \in 1..Len(remaining) |-> pts[remaining[k]]]

filter_close_points(pts, eps) == Take(pts, Remaining(pts, eps))

FcpCall ==
  /\ pc = "fcp_entry"
  /\ fcp' = [fcp EXCEPT !.i = Len(fcp.pts), !.j = Len(fcp.pts),
                        !.remaining = Remaining(fcp.pts, fcp.eps),
                        !.out = filter_close_points(fcp.pts, fcp.eps)]
  /\ pc' = "fcp_returned"
  /\ UNCHANGED <<earlyVars, err, dxs, per, nc>>

FcpNext == FcpCall

SpecFilter == FcpInit /\ [][FcpNext]_vars

\* the indices of the input points that were kept
KeptIndices == {fcp.remaining[k] : k \in 1..Len(fcp.remaining)}

\* C29: filter_close_points removes a point only if it lies within eps of a
\* point that is kept, and it always keeps the first input point.
C29_RemovedOnlyNearKept ==
  pc = "fcp_returned" =>
    /\ \A r \in (1..Len(fcp.pts)) \ KeptIndices :
         \E k \in KeptIndices :
           NormSq(fcp.pts[k], fcp.pts[r]) <= fcp.eps * fcp.eps
    /\ Len(fcp.pts) > 0 => 1 \in KeptIndices

(***************************************************************************)
(* find_period (lines 1271-1322).  The samples a and the threshold are     *)
(* small integers; the times t are multiples of the sampling step.         *)
(***************************************************************************)
Samples == UNION {[1..n -> 0..MaxVal] : n \in 1..MaxSamples}

TimeSteps == {1, 2}

Dirs == {1, -1, 0}

PerInit ==
  /\ pc = "per_entry"
  /\ CoreIdle /\ DxsIdle /\ FcpIdle /\ NcIdle
  /\ \E a \in Samples, dt \in TimeSteps, th \in 0..MaxVal, d \in Dirs,
        w \in BOOLEAN :
       per = [a |-> a, t |-> [k \in 1..Len(a) |-> (k - 1) * dt], th |-> th,
              dir |-> d, with_indices |-> w, off |-> FALSE, i |-> 0,
              ts |-> <<>>, ixs |-> <<>>, out |-> [kind |-> "none", v |-> 0]]

\* lines 1295-1298: inc_fn and dec_fn
inc_fn(v, th) == v < th
dec_fn(v, th) == v > th

\* lines 1299-1302: the choice of off_fn by dir
off_fn(d, v, th) == IF d = 1 THEN inc_fn(v, th) ELSE dec_fn(v, th)

\* lines 1299-1305: dir is checked, then off = off_fn(a[0])
PerSetup ==
  /\ pc = "per_entry"
  /\ IF per.dir \in {1, -1}
       THEN /\ per' = [per EXCEPT !.off = off_fn(per.dir, per.a[1], per.th),
                                  !.i = 1]
            /\ pc' = "per_loop"
            /\ err' = err
       ELSE /\ pc' = "per_raised"
            /\ err' = "ValueError: dir must be 1 or -1"
            /\ per' = per
  /\ UNCHANGED <<earlyVars, dxs, fcp, nc>>

\* lines 1306-1314: one pass of the loop over the samples (ixs holds the
\* 0-based index of the source)
PerSample ==
  /\ pc = "per_loop"
  /\ per.i <= Len(per.a)
  /\ LET av == per.a[per.i]
         offside == off_fn(per.dir, av, per.th)
     IN  per' = IF per.off /\ ~offside
                  THEN [per EXCEPT !.ts = Append(per.ts, per.t[per.i]),
                                   !.ixs = Append(per.ixs, per.i - 1),
                                   !.off = FALSE, !.i = per.i + 1]
                ELSE IF ~per.off /\ offside
                  THEN [per EXCEPT !.off = TRUE, !.i = per.i + 1]
                ELSE [per EXCEPT !.i = per.i + 1]
  /\ UNCHANGED <<earlyVars, pc, err, dxs, fcp, nc>>

\* line 1315: if len(ts) >= 1
EnoughPeriods(ts) == Len(ts) >= 1

\* lines 1315-1322: ts[-1]-ts[-2] when the guard holds, NaN otherwise;
\* ts[-2] of a list of one element raises IndexError
PerFinish ==
  /\ pc = "per_loop"
  /\ per.i > Len(per.a)
  /\ IF EnoughPeriods(per.ts)
       THEN IF Len(per.ts) >= 2
              THEN /\ per' = [per EXCEPT !.out =
                        [kind |-> "value",
                         v |-> per.ts[Len(per.ts)] - per.ts[Len(per.ts) - 1]]]
                   /\ pc' = "per_returned"
                   /\ err' = err
              ELSE /\ pc' = "per_raised"
                   /\ err' = "IndexError: list index out of range"
                   /\ per' = per
       ELSE /\ per' = [per EXCEPT !.out = [kind |-> "NaN", v |-> 0]]
            /\ pc' = "per_returned"
            /\ err' = err
  /\ UNCHANGED <<earlyVars, dxs, fcp, nc>>

PerNext ==
  \/ PerSetup
  \/ PerSample
  \/ PerFinish

SpecPeriod == PerInit /\ [][PerNext]_vars

\* sample k (1-based) is on the 'off' side of the threshold for direction d
OffSide(k) ==
  IF per.dir = 1 THEN per.a[k] < per.th ELSE per.a[k] > per.th

\* the 0-based indices at which the signal leaves the 'off' side
Crossings == {k - 1 : k \in {n \in 2..Len(per.a) : OffSide(n - 1) /\ ~OffSide(n)}}

PerFinished == pc \in {"per_returned", "per_raised"} /\ per.dir \in {1, -1}

\* C30: find_period records a crossing at index i exactly when the signal was
\* on the 'off' side of the threshold since the last crossing (or the start)
\* and sample i is no longer on that side; it returns the difference between
\* the times of the last two recorded crossings, and returns NaN without
\* raising whenever fewer than two crossings were recorded.
C30_PeriodOrNaN ==
  PerFinished =>
    /\ {per.ixs[k] : k \in 1..Len(per.ixs)} = Crossings
    /\ Len(per.ts) = Cardinality(Crossings)
    /\ Len(per.ts) >= 2 =>
         /\ pc = "per_returned"
         /\ per.out = [kind |-> "value",
                       v |-> per.ts[Len(per.ts)] - per.ts[Len(per.ts) - 1]]
    /\ Len(per.ts) < 2 =>
         /\ pc = "per_returned"
         /\ per.out.kind = "NaN"

(***************************************************************************)
(* find_nullclines (lines 35-421).  Coordinates are whole multiples of     *)
(* xtol; the domains start at 0 and their widths are multiples of TolDen,  *)
(* so that the 2% margin (tol = 1/TolDen) is a whole number.  The root     *)
(* solves of the grid search and the continuation calls are outside calls: *)
(* their results are chosen among a few shapes.  fps is None.              *)
(***************************************************************************)
NcDoms == {<<0, TolDen * w>> : w \in 1..MaxWidth}

\* max_num_points below one batch, and the largest tried
NcMaxNumPoints == {0, MaxNumPoints}

NcVarSets == {{"x", "y"}, {"x"}, {"y"}}

NcInit ==
  /\ pc = "nc_entry"
  /\ CoreIdle /\ DxsIdle /\ FcpIdle /\ PerIdle
  /\ \E xd \in NcDoms, ms \in {0, 1}, mnp \in NcMaxNumPoints, dv \in NcVarSets :
       nc = [x_dom |-> xd, y_dom |-> <<0, TolDen>>, xtol |-> 1, max_step |-> ms,
             max_num_points |-> mnp, do_vars |-> dv,
             x_null |-> <<>>, y_null |-> <<>>, todo |-> <<>>, cur |-> "none",
             sol |-> <<>>, new_sol_segment |-> <<>>, num_points |-> 0]

\* lines 216-219: the interval [dom[0]-tol*width, dom[1]+tol*width], with its
\* ends written over the denominator of tol
ExpandedFivePercent(dom) ==
  [lo |-> 20 * dom[1] - Abs(dom[2] - dom[1]),
   hi |-> 20 * dom[2] + Abs(dom[2] - dom[1]), den |-> 20]
Expanded(dom) ==
  [lo |-> TolDen * dom[1] - Abs(dom[2] - dom[1]),
   hi |-> TolDen * dom[2] + Abs(dom[2] - dom[1]), den |-> TolDen]

\* Interval.contains(v) is not notcontained
IntervalContains(iv, v) == iv.den * v >= iv.lo /\ iv.den * v <= iv.hi

\* the test of lines 2417-2418 and 2424-2425 on one point
InBounds(p, xinterval, yinterval) ==
  IntervalContains(xinterval, p[1]) /\ IntervalContains(yinterval, p[2])

\* lines 2409-2413: raw points are [pt, finite]; the finite ones are kept
filter_NaN(raw) ==
  LET fin == SelectSeq(raw, LAMBDA r : r.finite)
  IN  [k \in 1..Len(fin) |-> fin[k].pt]

\* lines 2415-2418
check_bounds(sol_array, xinterval, yinterval) ==
  \A k \in 1..Len(sol_array) : InBounds(sol_array[k], xinterval, yinterval)

\* lines 2420-2425
crop_2D(sol_array, xinterval, yinterval) ==
  SelectSeq(sol_array, LAMBDA p : InBounds(p, xinterval, yinterval))

\* the margin of a domain, tol*width
Margin(dom) == Abs(dom[2] - dom[1]) \div TolDen

\* results of the root solves (lines 175-212): two points close to each
\* other, one on the edge of the expanded domain, one just outside it, and
\* one with a NaN coordinate
RawPoints(xd, yd) ==
  {[pt |-> <<0, 0>>, finite |-> TRUE],
   [pt |-> <<1, 0>>, finite |-> TRUE],
   [pt |-> <<xd[2] + Margin(xd), 0>>, finite |-> TRUE],
   [pt |-> <<xd[2] + Margin(xd) + 1, 0>>, finite |-> TRUE],
   [pt |-> <<0, 0>>, finite |-> FALSE]}

RawSeqs(xd, yd) == UNION {[1..n -> RawPoints(xd, yd)] : n \in 0..MaxNcPts}

\* lines 220-223: filter_close_points(crop_2D(filter_NaN(pts), ...), xtol*10)
GridNullUnfiltered(raw, xd, yd, xtol) ==
  crop_2D(filter_NaN(raw), Expanded(xd), Expanded(yd))
GridNull(raw, xd, yd, xtol) ==
  filter_close_points(crop_2D(filter_NaN(raw), Expanded(xd), Expanded(yd)),
                      xtol * XtolFactor)

\* lines 175-235: the grid search, the cropping and filtering of its roots,
\* and the choice between returning them and continuation (Y first, then X)
NcGrid ==
  /\ pc = "nc_entry"
  /\ \E xraw \in RawSeqs(nc.x_dom, nc.y_dom), yraw \in RawSeqs(nc.x_dom, nc.y_dom) :
       /\ ("x" \notin nc.do_vars => xraw = <<>>)
       /\ ("y" \notin nc.do_vars => yraw = <<>>)
       /\ nc' = [nc EXCEPT
            !.x_null = GridNull(xraw, nc.x_dom, nc.y_dom, nc.xtol),
            !.y_null = GridNull(yraw, nc.x_dom, nc.y_dom, nc.xtol),
            !.todo = IF nc.max_step = 0 THEN <<>>
                     ELSE SelectSeq(<<"y", "x">>, LAMBDA v : v \in nc.do_vars)]
  /\ pc' = "nc_cont"
  /\ UNCHANGED <<earlyVars, err, dxs, fcp, per>>

\* lines 252-259: the initial point is moved into the domain
Clamp(v, dom) == IF v < dom[1] THEN dom[1] ELSE IF v > dom[2] THEN dom[2] ELSE v

\* lines 240-259 (Y) and 321-340 (X): the second grid point, else the first,
\* else the middle of the domain
InitPoint(null, xd, yd) ==
  LET p == IF Len(null) > 1 THEN null[2]
           ELSE IF Len(null) = 1 THEN null[1]
           ELSE <<(xd[1] + xd[2]) \div 2, (yd[1] + yd[2]) \div 2>>
  IN  <<Clamp(p[1], xd), Clamp(p[2], yd)>>

\* lines 239-287 (Y) and 320-367 (X): a curve is set up for the next variable
NcNewCurve ==
  /\ pc = "nc_cont"
  /\ nc.todo # <<>>
  /\ nc' = [nc EXCEPT
       !.cur = Head(nc.todo),
       !.sol = <<InitPoint(IF Head(nc.todo) = "y" THEN nc.y_null ELSE nc.x_null,
                           nc.x_dom, nc.y_dom)>>,
       !.new_sol_segment = <<>>,
       !.num_points = 0]
  /\ pc' = "nc_forward"
  /\ UNCHANGED <<earlyVars, err, dxs, fcp, per>>

\* a batch of loop_step points returned by forward() or backward(): points
\* far apart inside the domain, points close together inside it, and a run
\* that reaches the edge of the expanded domain and leaves it
Segments(xd, yd) ==
  {[k \in 1..loop_step |-> <<XtolFactor * k, 0>>],
   [k \in 1..loop_step |-> <<k, 0>>],
   [k \in 1..loop_step |-> <<0, yd[2] + Margin(yd) - 3 + k>>]}

\* lines 297-301: done after a batch
DoneOneBatchEarly(segment, num_points, mnp, xd, yd) ==
  \/ ~check_bounds(segment, Expanded(xd), Expanded(yd))
  \/ num_points + loop_step > mnp
Done(segment, num_points, mnp, xd, yd) ==
  \/ ~check_bounds(segment, Expanded(xd), Expanded(yd))
  \/ num_points > mnp

\* lines 288-301 (Y) and 368-381 (X): one pass of the forward loop
NcForward ==
  /\ pc = "nc_forward"
  /\ \E s \in Segments(nc.x_dom, nc.y_dom) :
       /\ nc' = [nc EXCEPT !.new_sol_segment = s,
                           !.sol = nc.sol \o s,
                           !.num_points = nc.num_points + loop_step]
       /\ pc' = IF Done(s, nc.num_points + loop_step, nc.max_num_points,
                        nc.x_dom, nc.y_dom)
                  THEN "nc_forward_done" ELSE "nc_forward"
  /\ UNCHANGED <<earlyVars, err, dxs, fcp, per>>

\* lines 302-303 (Y) and 382-383 (X)
NcTurn ==
  /\ pc = "nc_forward_done"
  /\ nc' = [nc EXCEPT !.num_points = 0]
  /\ pc' = "nc_backward"
  /\ UNCHANGED <<earlyVars, err, dxs, fcp, per>>

\* lines 304-315 (Y) and 384-395 (X): one pass of the backward loop
NcBackward ==
  /\ pc = "nc_backward"
  /\ \E s \in Segments(nc.x_dom, nc.y_dom) :
       /\ nc' = [nc EXCEPT !.new_sol_segment = s,
                           !.sol = s \o nc.sol,
                           !.num_points = nc.num_points + loop_step]
       /\ pc' = IF Done(s, nc.num_points + loop_step, nc.max_num_points,
                        nc.x_dom, nc.y_dom)
                  THEN "nc_backward_done" ELSE "nc_backward"
  /\ UNCHANGED <<earlyVars, err, dxs, fcp, per>>

\* lines 291-293, 307-309 (Y) and 371-373, 387-389 (X): PyDSTool_ExistError
\* from forward() or backward() is printed and raised again
NcFail ==
  /\ pc \in {"nc_forward", "nc_backward"}
  /\ pc' = "nc_raised"
  /\ err' = "PyDSTool_ExistError"
  /\ UNCHANGED <<earlyVars, dxs, fcp, per, nc>>

\* lines 316-318 (Y) and 396-398 (X): the curve, cropped, replaces the grid
\* points
NcCrop ==
  /\ pc = "nc_backward_done"
  /\ LET cropped == crop_2D(nc.sol, Expanded(nc.x_dom), Expanded(nc.y_dom))
     IN  nc' = [nc EXCEPT
           !.y_null = IF nc.cur = "y" THEN cropped ELSE nc.y_null,
           !.x_null = IF nc.cur = "x" THEN cropped ELSE nc.x_null,
           !.todo = Tail(nc.todo)]
  /\ pc' = "nc_cont"
  /\ UNCHANGED <<earlyVars, err, dxs, fcp, per>>

\* lines 420-421
NcReturn ==
  /\ pc = "nc_cont"
  /\ nc.todo = <<>>
  /\ pc' = "nc_returned"
  /\ UNCHANGED <<earlyVars, err, dxs, fcp, per, nc>>

NcNext ==
  \/ NcGrid
  \/ NcNewCurve
  \/ NcForward
  \/ NcTurn
  \/ NcBackward
  \/ NcFail
  \/ NcCrop
  \/ NcReturn

SpecNullclines == NcInit /\ [][NcNext]_vars

\* v lies in the domain widened by 2% of its width on each side
WithinTwoPercent(v, dom) ==
  /\ 100 * v >= 100 * dom[1] - 2 * Abs(dom[2] - dom[1])
  /\ 100 * v <= 100 * dom[2] + 2 * Abs(dom[2] - dom[1])

PointWithinTwoPercent(p) ==
  WithinTwoPercent(p[1], nc.x_dom) /\ WithinTwoPercent(p[2], nc.y_dom)

AllWithinTwoPercent(curve) ==
  \A k \in 1..Len(curve) : PointWithinTwoPercent(curve[k])

\* C21: every point of both nullclines returned by find_nullclines lies
\* within the (x, y) domain rectangle expanded by 2% of the domain width on
\* each side, with the grid search alone (max_step == 0) and with
\* continuation (max_step != 0).
C21_WithinExpandedDomain ==
  pc = "nc_returned" =>
    AllWithinTwoPercent(nc.x_null) /\ AllWithinTwoPercent(nc.y_null)

\* a continuation curve that went beyond the expanded domain was returned
\* without its outside points, the point on the edge kept
C21_Witness ==
  /\ pc = "nc_returned"
  /\ nc.max_step # 0
  /\ nc.do_vars = {"y"}
  /\ ~AllWithinTwoPercent(nc.sol)
  /\ \E k \in 1..Len(nc.y_null) :
       50 * nc.y_null[k][2] = 51 * nc.y_dom[2]

NoClosePoints(curve, xtol) ==
  \A k1 \in 1..Len(curve), k2 \in 1..Len(curve) :
    k1 # k2 =>
      (curve[k1][1] - curve[k2][1]) * (curve[k1][1] - curve[k2][1])
      + (curve[k1][2] - curve[k2][2]) * (curve[k1][2] - curve[k2][2])
      >= (10 * xtol) * (10 * xtol)

\* C22: no two points of a nullcline returned by find_nullclines are closer
\* than 10*xtol to each other, whether the curve comes from the grid search
\* or from continuation.
C22_NoClosePoints ==
  pc = "nc_returned" =>
    NoClosePoints(nc.x_null, nc.xtol) /\ NoClosePoints(nc.y_null, nc.xtol)

\* C22, amended: no two points of a nullcline returned by find_nullclines are
\* closer than 10*xtol to each other when the curve comes from the grid
\* search (max_step == 0).
C22_GridNoClosePoints ==
  (pc = "nc_returned" /\ nc.max_step = 0) =>
    NoClosePoints(nc.x_null, nc.xtol) /\ NoClosePoints(nc.y_null, nc.xtol)

\* the grid search alone returned a nullcline of two points
C22_Witness ==
  /\ pc = "nc_returned"
  /\ nc.max_step = 0
  /\ Len(nc.x_null) >= 2

NcLoops == {"nc_forward", "nc_backward"}

\* C23: each continuation stepping loop advances in batches of 5 points and
\* stops after the first batch with a point outside the tolerance-expanded
\* domain, or once the counted points exceed max_num_points; a loop ends
\* after at most floor(max_num_points/5)+1 batches, and a continuation
\* failure is propagated to the caller without retry.
C23_ContinuationBatches ==
  [][/\ (pc \in NcLoops /\ pc' # "nc_raised") =>
          /\ nc'.num_points = nc.num_points + 5
          /\ pc' = pc <=> /\ AllWithinTwoPercent(nc'.new_sol_segment)
                          /\ nc'.num_points <= nc.max_num_points
          /\ nc'.num_points <= 5 * ((nc.max_num_points \div 5) + 1)
     /\ (pc \in NcLoops /\ pc' = "nc_raised") =>
          /\ err' = "PyDSTool_ExistError"
          /\ nc' = nc
     /\ pc = "nc_raised" => pc' = "nc_raised"
    ]_vars

\* a forward loop went on after a first batch inside the domain and was
\* stopped by the count of points, its second batch inside the domain too
C23_Witness ==
  /\ pc = "nc_forward_done"
  /\ nc.num_points = 10
  /\ AllWithinTwoPercent(nc.new_sol_segment)

====
